---- MODULE Spec2Model ----
(***************************************************************************)
(* Model of the review session of github-review-mcp (src/src/hosted.js):   *)
(* reviewPullRequest, handleFunctionCalls and executeToolFunction.         *)
(*                                                                         *)
(* The session is one async function.  JavaScript runs the code between    *)
(* two awaits atomically, so the model has one action per await: the       *)
(* action is "the awaited backend call or tool execution settles (resolves *)
(* or rejects) and the code runs up to the next await, issuing the next    *)
(* call".  pc names the await the session is suspended on.                 *)
(***************************************************************************)
EXTENDS Integers, Sequences, FiniteSets, TLC

(***************************************************************************)
(* Bounds of the model.                                                    *)
(***************************************************************************)
\* most backend calls (generateContent, chat.sendMessage) of one session
MaxBackendCalls == 5
\* most tool requests the backend makes in one session, over all its responses
MaxToolRequests == 4

(***************************************************************************)
(* Program constants.                                                      *)
(***************************************************************************)
\* hosted.js:437  directMessage.length < 50
MinResponseLength == 50
\* hosted.js:344  toolsUsed.size >= 3
MinToolsUsed == 3

\* tools/index.js:43-58  the keys of toolHandlers
toolHandlers ==
  { "get_pr_details", "get_pr_files", "get_pr_commits", "get_file_content",
    "post_pr_review", "get_repo_info", "get_review_prompts",
    "analyze_code_quality", "analyze_diff_impact", "detect_security_issues",
    "detect_code_patterns", "analyze_dependencies", "analyze_test_coverage",
    "generate_suggestions" }

\* hosted.js:442-446  the rephrased prompts, in the order they are tried
\* (variant: the list without its last prompt)
strategiesShort == << "call_get_review_prompts", "start_get_pr_details" >>
strategies ==
  << "call_get_review_prompts", "start_get_pr_details", "use_tools_get_pr_details" >>

\* hosted.js:467  the diagnostic placeholder message
Placeholder == "Unable to analyze PR - function calling not working properly."

(***************************************************************************)
(* Inputs: what the backend may answer and what a tool may do.             *)
(***************************************************************************)
\* the names the backend asks for: two registered tools and one that is not
RequestedNames == { "get_review_prompts", "get_pr_details", "unknown_tool" }

\* lengths of the text of a backend response: empty, just short, long enough
TextLens == { 0, MinResponseLength - 1, MinResponseLength }

CallSeqs == UNION { [1..n -> RequestedNames] : n \in 1..MaxToolRequests }

\* A backend response.  candidates holds the functionCall parts of
\* candidates[0].content.parts; functionCalls is the response's functionCalls
\* property, which either mirrors them or is absent/empty.  The code reads
\* text() only of a response in which it found no tool request, so a response
\* with tool requests carries the empty text.
Responses ==
  { [functionCalls |-> cs, candidates |-> cs, text |-> 0] : cs \in CallSeqs }
  \cup { [functionCalls |-> << >>, candidates |-> cs, text |-> 0] : cs \in CallSeqs }
  \cup { [functionCalls |-> << >>, candidates |-> << >>, text |-> t] : t \in TextLens }

\* the responses that hold at most n tool requests
ResponsesWithin ==
  [n \in 0..MaxToolRequests |-> { r \in Responses : Len(r.candidates) <= n }]

NoResponse == [functionCalls |-> << >>, text |-> 0, id |-> 0]
NoResult == [kind |-> "none", from |-> 0, text |-> 0]
NoFirstResponse == [candidates |-> << >>, text |-> 0]
NoTool == [req |-> << 0, 0 >>, name |-> "", outcome |-> ""]

VARIABLES
  pc,                   \* the await the session is suspended on
  strategy,             \* 0, or the index i+1 of the rephrasing of the loop at 448
  conversationHistory,  \* hosted.js:195
  callsIter,            \* the functionCalls array a for-of loop iterates
  iterId,               \* the backend response that array came from
  idx,                  \* position of the for-of loop in callsIter
  finalResponse,        \* hosted.js:231
  toolsUsed,            \* hosted.js:269
  nBackend,             \* number of backend calls issued
  prompts,              \* the prompts given to generateContent, in order
  turnSent,             \* the chat messages sent since the while loop last
                        \* took up a response (hosted.js:272)
  inFlight,             \* tool executions started and not settled
  pending,              \* tool requests received and not passed to executeToolFunction
  result,               \* what reviewPullRequest returned or threw
  \* what the environment did, recorded to state the properties
  nRequested,           \* number of tool requests received from the backend
  backendFailures,      \* the backend calls that threw, by their number
  firstResponse,        \* the tool requests and the text of the first response
  forceElicited,        \* a response to a rephrased prompt held a tool request
  lastTool              \* the tool execution that settled last

vars == << pc, strategy, conversationHistory, callsIter, iterId, idx,
           finalResponse, toolsUsed, nBackend, prompts, turnSent, inFlight,
           pending, result, nRequested, backendFailures, firstResponse,
           forceElicited, lastTool >>

(***************************************************************************)
(* The other entry points of the program have their own state: one tool    *)
(* invocation through a dispatcher (src/src/services/analysis.js:1161,     *)
(* src/src/index.js:311, hosted.js:158), one application of                *)
(* GitHubService.parsePRUrl, and one POST /review request (hosted.js:46).  *)
(* A review session leaves that state alone.                               *)
(***************************************************************************)
VARIABLES
  tpc,            \* the await the tool invocation is suspended on
  request,        \* the invocation: dispatcher, tool name, arguments
  handlerCalled,  \* the function the dispatcher called as the handler
  githubCalls,    \* the calls made on the platform client (GitHubService)
  octokitCalls,   \* the requests issued to the source platform (octokit)
  analysisCalls,  \* the calls made on the analysis provider
  prFiles,        \* the files the platform returned (pulls.listFiles)
  response,       \* what the invocation returned or threw
  url,            \* the argument of parsePRUrl
  parsed,         \* what parsePRUrl returned or threw
  validApiKeys,   \* hosted.js:9
  httpRequest,    \* the POST /review request: Authorization header and body
  httpResponse,   \* the response sent by the endpoint
  reviewCalls     \* number of calls of reviewPullRequest made by the endpoint

toolVars == << tpc, request, handlerCalled, githubCalls, octokitCalls,
               analysisCalls, prFiles, response >>
parseVars == << url, parsed >>
httpVars == << validApiKeys, httpRequest, httpResponse, reviewCalls >>

(***************************************************************************)
(* The objects a program run holds beside one invocation: what a server    *)
(* has answered so far, the service objects initServices (hosted.js:118)   *)
(* has constructed, one call of AnalysisService.analyzeCodeQuality         *)
(* (analysis.js:14), the security patterns of the AnalysisService of a     *)
(* server (analysis.js:6, 1149) with the PR data it scans, and a second    *)
(* review session that runs interleaved with the first.                    *)
(***************************************************************************)
VARIABLES
  invocations,    \* number of requests the dispatcher has taken
  guidelines,     \* what get_review_prompts returned: server, invocation, text
  handlerArgs,    \* the arguments the dispatcher called the handler with
  services,       \* hosted.js:372  the services of the running session
  created,        \* number of service pairs initServices has constructed
  qpc,            \* the await analyzeCodeQuality is suspended on
  qFiles,         \* prDetails.files, and whether filePaths lets a file in
  qNext,          \* position of the for-of loop in prDetails.files
  analysisFiles,  \* analysis.files (analysis.js:18)
  overall_score,  \* analysis.overall_score (analysis.js:35)
  lastIndex,      \* lastIndex of each pattern object of this.securityPatterns
  scanFiles,      \* prDetails.files given to detectSecurityIssues
  scanResults,    \* the vulnerabilities each invocation returned, in order
  running,        \* the session whose code runs: 1 or 2
  suspended       \* the locals of the other session, suspended at an await

callVars == << invocations, guidelines, handlerArgs >>
objVars == << services, created >>
scoreVars == << qpc, qFiles, qNext, analysisFiles, overall_score >>
scanVars == << lastIndex, scanFiles, scanResults >>
analysisVars == << scoreVars, scanVars >>
twoVars == << running, suspended >>
allVars == << vars, toolVars, parseVars, httpVars, callVars, objVars,
              analysisVars, twoVars >>

\* no tool invocation, no parsePRUrl call and no HTTP request have been made
NoRequest == [server |-> "", name |-> "", hasArgs |-> FALSE, args |-> << >>]
NoOutcome == [kind |-> "none"]
NoHttpRequest ==
  [received |-> FALSE, hasHeader |-> FALSE, authorization |-> << >>,
   hasPr |-> FALSE, pr |-> << >>]
NoHttpResponse == [status |-> 0, body |-> "none"]
ToolIdle ==
  /\ tpc = "idle"
  /\ request = NoRequest
  /\ handlerCalled = ""
  /\ githubCalls = << >>
  /\ octokitCalls = << >>
  /\ analysisCalls = << >>
  /\ prFiles = << >>
  /\ response = NoOutcome
ParseIdle ==
  /\ url = << >>
  /\ parsed = NoOutcome
HttpIdle ==
  /\ validApiKeys = << >>
  /\ httpRequest = NoHttpRequest
  /\ httpResponse = NoHttpResponse
  /\ reviewCalls = 0
CallIdle ==
  /\ invocations = 0
  /\ guidelines = { }
  /\ handlerArgs = << >>
ObjFresh ==
  /\ services = 0
  /\ created = 0
ScoreIdle ==
  /\ qpc = "idle"
  /\ qFiles = << >>
  /\ qNext = 0
  /\ analysisFiles = << >>
  /\ overall_score = 0
ScanIdle ==
  /\ lastIndex = << >>
  /\ scanFiles = << >>
  /\ scanResults = << >>
AnalysisIdle == ScoreIdle /\ ScanIdle
TwoIdle ==
  /\ running = 1
  /\ suspended = << >>

(***************************************************************************)
(* Pure helpers.                                                           *)
(***************************************************************************)
\* hosted.js:437  !directMessage || directMessage.length < 50
\* (variant: only the empty text counts as too short)
TooShortEmptyOnly(len) == len = 0
TooShort(len) == len = 0 \/ len < MinResponseLength

\* hosted.js:412-422, 255-266, 300-312, 327-339: when the functionCalls
\* property is absent or empty, the functionCall parts of the first candidate
\* are taken instead.
Normalize(r, id) ==
  [functionCalls |-> IF r.functionCalls = << >> THEN r.candidates ELSE r.functionCalls,
   text |-> r.text, id |-> id]

\* hosted.js:452-454, 348: the response is used as the backend returned it
AsReturned(r, id) == [functionCalls |-> r.functionCalls, text |-> r.text, id |-> id]

\* the tool requests a backend response carries
Requests(r, id) == { << id, k >> : k \in 1..Len(r.candidates) }

\* hosted.js:158-181: executeToolFunction throws for a name without handler;
\* a handler returns its result or throws (missing argument, platform error)
\* (variant: the execution of a name without handler never settles)
ToolOutcomesUnknownHangs(name) ==
  IF name \in toolHandlers THEN { "result", "error" } ELSE { }
ToolOutcomes(name) ==
  IF name \in toolHandlers THEN { "result", "error" } ELSE { "error" }

\* hosted.js:213-216, 219-222, 290-295, 317-322: the functionResponse part;
\* response is the handler's result, or {error: error.message}
\* (variant: the error is not carried in the response)
FunctionResponseLosesError(name, outcome, req) ==
  [role |-> "function", name |-> name, response |-> "result", req |-> req]
FunctionResponse(name, outcome, req) ==
  [role |-> "function", name |-> name, response |-> outcome, req |-> req]

\* hosted.js:196-197: the two turns the history starts with
UserTurn(prompt) ==
  [role |-> "user", name |-> prompt, response |-> "", req |-> << 0, 0 >>]
ModelTurn(name, req) ==
  [role |-> "model", name |-> name, response |-> "", req |-> req]

\* hosted.js:230, 347: a text given to chat.sendMessage
Message(msg) ==
  [msg |-> msg, name |-> "", response |-> "", req |-> << 0, 0 >>]
\* hosted.js:290-295, 317-322: a functionResponse part given to chat.sendMessage
ResponseMessage(fresp) ==
  [msg |-> "functionResponse", name |-> fresp.name,
   response |-> fresp.response, req |-> fresp.req]

\* hosted.js:278  toolsUsed.add(functionCall.name), before the try
\* (variant: only a name that has a handler is recorded)
AddRegisteredOnly(used, name) ==
  IF name \in toolHandlers THEN used \cup { name } ELSE used
Add(used, name) == used \cup { name }

\* hosted.js:205, 281: await executeToolFunction(...) - the loop goes on only
\* when the execution has settled
\* (variant: the execution is started and not awaited)
AfterAwaitNotAwaited(flying, call) == flying
AfterAwait(flying, call) == flying \ { call }

(***************************************************************************)
(* What the environment does at an await.                                  *)
(***************************************************************************)
\* the backend call awaited now throws
BackendThrows ==
  /\ backendFailures' = Append(backendFailures, nBackend)
  /\ UNCHANGED << nRequested, firstResponse, forceElicited, lastTool >>

\* the backend call awaited now returns r, within the bound on tool requests
BackendReturns(r) ==
  /\ nRequested' = nRequested + Len(r.candidates)
  /\ firstResponse' = IF nBackend = 1
                       THEN [candidates |-> r.candidates, text |-> r.text]
                       ELSE firstResponse
  /\ forceElicited' = (forceElicited \/ (pc = "awaitForce" /\ r.candidates # << >>))
  /\ UNCHANGED << backendFailures, lastTool >>

\* the tool execution awaited now settles with outcome o
ToolSettles(o) ==
  /\ lastTool' = [req |-> << iterId, idx >>, name |-> callsIter[idx], outcome |-> o]
  /\ UNCHANGED << nRequested, backendFailures, firstResponse, forceElicited >>

(***************************************************************************)
(* Init: reviewPullRequest has not been called yet.                        *)
(***************************************************************************)
SessionFresh ==
  /\ strategy = 0
  /\ conversationHistory = << >>
  /\ callsIter = << >>
  /\ iterId = 0
  /\ idx = 0
  /\ finalResponse = NoResponse
  /\ toolsUsed = { }
  /\ nBackend = 0
  /\ prompts = << >>
  /\ turnSent = << >>
  /\ inFlight = { }
  /\ pending = { }
  /\ result = NoResult
  /\ nRequested = 0
  /\ backendFailures = << >>
  /\ firstResponse = NoFirstResponse
  /\ forceElicited = FALSE
  /\ lastTool = NoTool
Init ==
  /\ pc = "start"
  /\ SessionFresh
  /\ ToolIdle
  /\ ParseIdle
  /\ HttpIdle
  /\ CallIdle
  /\ ObjFresh
  /\ AnalysisIdle
  /\ TwoIdle

(***************************************************************************)
(* Fragments: the code from the point an await settles to the next await.  *)
(* Each assigns the variables of the program; the action that uses it      *)
(* records what the environment did.                                       *)
(***************************************************************************)
\* return { message } (hosted.js:357-359, 466-468, 472-474)
Return(kind, from, text, pend) ==
  /\ pc' = "done"
  /\ result' = [kind |-> kind, from |-> from, text |-> text]
  /\ pending' = pend
  /\ UNCHANGED << strategy, conversationHistory, callsIter, iterId, idx,
                  finalResponse, toolsUsed, nBackend, prompts, turnSent,
                  inFlight >>

\* hosted.js:476-480: the outer catch rethrows
Throw ==
  /\ pc' = "failed"
  /\ result' = [kind |-> "error", from |-> 0, text |-> 0]
  /\ UNCHANGED << strategy, conversationHistory, callsIter, iterId, idx,
                  finalResponse, toolsUsed, nBackend, prompts, turnSent,
                  inFlight, pending >>

\* hosted.js:448-468: iteration i of the loop over the rephrased prompts, or,
\* past the last one, the placeholder.  The locals of an abandoned
\* handleFunctionCalls are gone.
TryStrategy(i, pend) ==
  IF i <= Len(strategies)
  THEN /\ nBackend < MaxBackendCalls
       /\ pc' = "awaitForce"
       /\ strategy' = i
       /\ nBackend' = nBackend + 1
       /\ prompts' = Append(prompts, strategies[i])
       /\ turnSent' = << >>
       /\ conversationHistory' = << >>
       /\ callsIter' = << >>
       /\ iterId' = 0
       /\ idx' = 0
       /\ finalResponse' = NoResponse
       /\ toolsUsed' = { }
       /\ pending' = pend
       /\ UNCHANGED << inFlight, result >>
  ELSE /\ pc' = "done"
       /\ result' = [kind |-> "placeholder", from |-> 0, text |-> Len(Placeholder)]
       /\ conversationHistory' = << >>
       /\ callsIter' = << >>
       /\ iterId' = 0
       /\ idx' = 0
       /\ finalResponse' = NoResponse
       /\ toolsUsed' = { }
       /\ turnSent' = << >>
       /\ pending' = pend
       /\ UNCHANGED << strategy, nBackend, prompts, inFlight >>

\* an error leaves handleFunctionCalls: outside the forced path the outer catch
\* (476) rethrows it; inside, the catch of the strategy loop (460) swallows it
Propagate ==
  IF strategy = 0 THEN Throw ELSE TryStrategy(strategy + 1, pending)

\* hosted.js:192-205: handleFunctionCalls starts and awaits the first tool
EnterHandle(fr, prompt, s, pend) ==
  /\ pc' = "awaitBatchTool"
  /\ strategy' = s
  /\ conversationHistory' =
       << UserTurn(prompt), ModelTurn(fr.functionCalls[1], << fr.id, 1 >>) >>
  /\ callsIter' = fr.functionCalls
  /\ iterId' = fr.id
  /\ idx' = 1
  /\ inFlight' = inFlight \cup { << fr.id, 1 >> }
  /\ pending' = pend \ { << fr.id, 1 >> }
  /\ UNCHANGED << finalResponse, toolsUsed, nBackend, prompts, turnSent,
                  result >>

\* hosted.js:272-281 and 352-359: the while test; either the for loop starts
\* on the requested calls or the text of the response is returned
WhileStep(fr, used, pend) ==
  IF fr.functionCalls # << >>
  THEN /\ pc' = "awaitLoopTool"
       /\ callsIter' = fr.functionCalls
       /\ iterId' = fr.id
       /\ idx' = 1
       /\ toolsUsed' = Add(used, fr.functionCalls[1])
       /\ finalResponse' = fr
       /\ inFlight' = inFlight \cup { << fr.id, 1 >> }
       /\ pending' = pend \ { << fr.id, 1 >> }
       /\ turnSent' = << >>
       /\ UNCHANGED << strategy, conversationHistory, nBackend, prompts, result >>
  ELSE /\ pc' = "done"
       /\ result' = [kind |-> "text", from |-> fr.id, text |-> fr.text]
       /\ finalResponse' = fr
       /\ toolsUsed' = used
       /\ pending' = pend
       /\ UNCHANGED << strategy, conversationHistory, callsIter, iterId, idx,
                       nBackend, prompts, turnSent, inFlight >>

(***************************************************************************)
(* Actions.                                                                *)
(***************************************************************************)
\* hosted.js:118-122  initServices(): a new GitHubService and a new
\* AnalysisService at every call; n pairs were constructed before
\* (variant: every call returns the pair constructed first)
initServicesShared(n) == 1
initServices(n) == n + 1

\* hosted.js:367-385: reviewPullRequest is called, constructs its services
\* and awaits generateContent
Start ==
  /\ pc = "start"
  /\ UNCHANGED << toolVars, parseVars, httpVars, callVars, analysisVars,
                  twoVars >>
  /\ services' = initServices(created)
  /\ created' = created + 1
  /\ pc' = "awaitInitial"
  /\ nBackend' = nBackend + 1
  /\ prompts' = << "prompt" >>
  /\ UNCHANGED << strategy, conversationHistory, callsIter, iterId, idx,
                  finalResponse, toolsUsed, turnSent, inFlight, pending, result,
                  nRequested, backendFailures, firstResponse, forceElicited,
                  lastTool >>

\* hosted.js:383, 476-480: the initial generateContent throws
InitialRejects ==
  /\ pc = "awaitInitial"
  /\ UNCHANGED << toolVars, parseVars, httpVars, callVars, objVars,
                  analysisVars, twoVars >>
  /\ BackendThrows
  /\ Throw

\* hosted.js:386-475: the initial response arrives
InitialResolves ==
  /\ pc = "awaitInitial"
  /\ UNCHANGED << toolVars, parseVars, httpVars, callVars, objVars,
                  analysisVars, twoVars >>
  /\ \E r \in ResponsesWithin[MaxToolRequests - nRequested] :
       /\ BackendReturns(r)
       /\ LET fr == Normalize(r, nBackend)
              pend == pending \cup Requests(r, nBackend)
          IN IF fr.functionCalls # << >>
             THEN EnterHandle(fr, "prompt", 0, pend)
             ELSE IF TooShort(fr.text)
                  THEN TryStrategy(1, pend)
                  ELSE Return("text", fr.id, fr.text, pend)

\* hosted.js:451, 460-462: generateContent of a rephrased prompt throws; the
\* catch inside the loop logs the error and the loop goes on
\* (variant: the error reaches the outer catch, which rethrows it)
ForceRejectsRethrows ==
  /\ pc = "awaitForce"
  /\ UNCHANGED << toolVars, parseVars, httpVars, callVars, objVars,
                  analysisVars, twoVars >>
  /\ BackendThrows
  /\ Throw
ForceRejects ==
  /\ pc = "awaitForce"
  /\ UNCHANGED << toolVars, parseVars, httpVars, callVars, objVars,
                  analysisVars, twoVars >>
  /\ BackendThrows
  /\ TryStrategy(strategy + 1, pending)

\* hosted.js:452-459: the response to a rephrased prompt arrives
ForceResolves ==
  /\ pc = "awaitForce"
  /\ UNCHANGED << toolVars, parseVars, httpVars, callVars, objVars,
                  analysisVars, twoVars >>
  /\ \E r \in ResponsesWithin[MaxToolRequests - nRequested] :
       /\ BackendReturns(r)
       /\ LET fr == AsReturned(r, nBackend)
              pend == pending \cup Requests(r, nBackend)
          IN IF fr.functionCalls # << >>
             THEN EnterHandle(fr, strategies[strategy], strategy, pend)
             ELSE TryStrategy(strategy + 1, pend)

\* hosted.js:202-231: a tool of the first batch settles; its response is
\* pushed; the next tool starts or the chat is started with the history
BatchToolSettles ==
  /\ pc = "awaitBatchTool"
  /\ UNCHANGED << toolVars, parseVars, httpVars, callVars, objVars,
                  analysisVars, twoVars >>
  /\ \E o \in ToolOutcomes(callsIter[idx]) :
       /\ ToolSettles(o)
       /\ conversationHistory' =
            Append(conversationHistory,
                   FunctionResponse(callsIter[idx], o, << iterId, idx >>))
  /\ IF idx < Len(callsIter)
     THEN /\ idx' = idx + 1
          /\ inFlight' = AfterAwait(inFlight, << iterId, idx >>)
                           \cup { << iterId, idx + 1 >> }
          /\ pending' = pending \ { << iterId, idx + 1 >> }
          /\ UNCHANGED << pc, nBackend, turnSent >>
     ELSE /\ nBackend < MaxBackendCalls
          /\ pc' = "awaitContinuation"
          /\ nBackend' = nBackend + 1
          /\ turnSent' = << Message("call_get_pr_details") >>
          /\ inFlight' = AfterAwait(inFlight, << iterId, idx >>)
          /\ UNCHANGED << idx, pending >>
  /\ UNCHANGED << strategy, callsIter, iterId, finalResponse, toolsUsed,
                  prompts, result >>

\* hosted.js:230: the first chat.sendMessage throws
ContinuationRejects ==
  /\ pc = "awaitContinuation"
  /\ UNCHANGED << toolVars, parseVars, httpVars, callVars, objVars,
                  analysisVars, twoVars >>
  /\ BackendThrows
  /\ Propagate

\* hosted.js:231-281, 352-359: its response arrives; toolsUsed is created
ContinuationResolves ==
  /\ pc = "awaitContinuation"
  /\ UNCHANGED << toolVars, parseVars, httpVars, callVars, objVars,
                  analysisVars, twoVars >>
  /\ \E r \in ResponsesWithin[MaxToolRequests - nRequested] :
       /\ BackendReturns(r)
       /\ WhileStep(Normalize(r, nBackend), { "get_review_prompts" },
                    pending \cup Requests(r, nBackend))

\* hosted.js:281-295, 313-322: a tool of the loop settles and its result, or
\* its error, is sent to the chat
LoopToolSettles ==
  /\ pc = "awaitLoopTool"
  /\ UNCHANGED << toolVars, parseVars, httpVars, callVars, objVars,
                  analysisVars, twoVars >>
  /\ nBackend < MaxBackendCalls
  /\ \E o \in ToolOutcomes(callsIter[idx]) :
       /\ ToolSettles(o)
       /\ pc' = IF o = "result" THEN "awaitLoopSend" ELSE "awaitLoopErrSend"
       /\ turnSent' = Append(turnSent, ResponseMessage(
                        FunctionResponse(callsIter[idx], o, << iterId, idx >>)))
  /\ nBackend' = nBackend + 1
  /\ inFlight' = AfterAwait(inFlight, << iterId, idx >>)
  /\ UNCHANGED << strategy, conversationHistory, callsIter, iterId, idx,
                  finalResponse, toolsUsed, prompts, pending, result >>

\* hosted.js:290, 313-322: chat.sendMessage of a tool result throws inside the
\* try of the tool; the catch sends an error response for the tool
LoopSendRejects ==
  /\ pc = "awaitLoopSend"
  /\ UNCHANGED << toolVars, parseVars, httpVars, callVars, objVars,
                  analysisVars, twoVars >>
  /\ nBackend < MaxBackendCalls
  /\ BackendThrows
  /\ pc' = "awaitLoopErrSend"
  /\ nBackend' = nBackend + 1
  /\ turnSent' = Append(turnSent, ResponseMessage(
                   FunctionResponse(callsIter[idx], "error", << iterId, idx >>)))
  /\ UNCHANGED << strategy, conversationHistory, callsIter, iterId, idx,
                  finalResponse, toolsUsed, prompts, inFlight, pending, result >>

\* hosted.js:317: chat.sendMessage in the catch throws
LoopErrSendRejects ==
  /\ pc = "awaitLoopErrSend"
  /\ UNCHANGED << toolVars, parseVars, httpVars, callVars, objVars,
                  analysisVars, twoVars >>
  /\ BackendThrows
  /\ Propagate

\* hosted.js:296-312, 323-349: the response to a tool response arrives; the
\* for loop goes on with the next call of the array it iterates, or ends
LoopSendResolves ==
  /\ pc \in { "awaitLoopSend", "awaitLoopErrSend" }
  /\ UNCHANGED << toolVars, parseVars, httpVars, callVars, objVars,
                  analysisVars, twoVars >>
  /\ \E r \in ResponsesWithin[MaxToolRequests - nRequested] :
       /\ BackendReturns(r)
       /\ LET fr == Normalize(r, nBackend)
              pend == pending \cup Requests(r, nBackend)
          IN IF idx < Len(callsIter)
             THEN /\ pc' = "awaitLoopTool"
                  /\ idx' = idx + 1
                  /\ toolsUsed' = Add(toolsUsed, callsIter[idx + 1])
                  /\ finalResponse' = fr
                  /\ inFlight' = inFlight \cup { << iterId, idx + 1 >> }
                  /\ pending' = pend \ { << iterId, idx + 1 >> }
                  /\ UNCHANGED << strategy, conversationHistory, callsIter,
                                  iterId, nBackend, prompts, turnSent, result >>
             ELSE IF fr.functionCalls = << >>
                       /\ Cardinality(toolsUsed) >= MinToolsUsed
                  THEN /\ nBackend < MaxBackendCalls
                       /\ pc' = "awaitFinalPrompt"
                       /\ nBackend' = nBackend + 1
                       /\ turnSent' = Append(turnSent, Message("final_review"))
                       /\ finalResponse' = fr
                       /\ pending' = pend
                       /\ UNCHANGED << strategy, conversationHistory, callsIter,
                                       iterId, idx, toolsUsed, prompts, inFlight,
                                       result >>
                  ELSE WhileStep(fr, toolsUsed, pend)

\* hosted.js:347: chat.sendMessage of the final review request throws
FinalPromptRejects ==
  /\ pc = "awaitFinalPrompt"
  /\ UNCHANGED << toolVars, parseVars, httpVars, callVars, objVars,
                  analysisVars, twoVars >>
  /\ BackendThrows
  /\ Propagate

\* hosted.js:348-359: its response arrives; the candidates are not looked at
FinalPromptResolves ==
  /\ pc = "awaitFinalPrompt"
  /\ UNCHANGED << toolVars, parseVars, httpVars, callVars, objVars,
                  analysisVars, twoVars >>
  /\ \E r \in ResponsesWithin[MaxToolRequests - nRequested] :
       /\ BackendReturns(r)
       /\ WhileStep(AsReturned(r, nBackend), toolsUsed,
                    pending \cup Requests(r, nBackend))

Next ==
  \/ Start
  \/ InitialRejects
  \/ InitialResolves
  \/ ForceRejects
  \/ ForceResolves
  \/ BatchToolSettles
  \/ ContinuationRejects
  \/ ContinuationResolves
  \/ LoopToolSettles
  \/ LoopSendRejects
  \/ LoopErrSendRejects
  \/ LoopSendResolves
  \/ FinalPromptRejects
  \/ FinalPromptResolves

Spec == Init /\ [][Next]_vars

(***************************************************************************)
(* Properties.                                                             *)
(***************************************************************************)
Returned == pc = "done"
Last(q) == q[Len(q)]
AwaitsBackend ==
  pc \in { "awaitInitial", "awaitForce", "awaitContinuation", "awaitLoopSend",
           "awaitLoopErrSend", "awaitFinalPrompt" }
AwaitsTool == pc \in { "awaitBatchTool", "awaitLoopTool" }

\* C1: whenever reviewPullRequest returns an answer that is not the
\* placeholder of the forced retries (the direct first answer, or the text
\* returned at the exit of the tool loop), at least 3 distinct tools are
\* recorded as used in the session.
C1_MinimumToolGate ==
  (Returned /\ result.kind = "text") => Cardinality(toolsUsed) >= 3

\* C2: a backend response without tool request that arrives while fewer than
\* 3 distinct tools are recorded is not returned: the step that takes the
\* response in does not end the session with its text (a follow-up is sent
\* and another response awaited first).  Stated for the responses taken in
\* at the gate of the tool loop (hosted.js:343-359).
C2_GateReprompt ==
  [][ (pc \in { "awaitLoopSend", "awaitLoopErrSend" } /\ Cardinality(toolsUsed') < 3)
        => ~(pc' = "done" /\ result'.kind = "text" /\ result'.from = nBackend) ]_vars

\* C3: when the first response has no tool request and a text that is empty
\* or shorter than 50 characters, and no response to a rephrased prompt holds
\* a tool request, the session only ever awaits rephrased prompts, sends them
\* in the order of the list, never throws, and ends, after exactly the three
\* of them, with the placeholder.
C3_FirstShallow ==
  /\ pc \notin { "start", "awaitInitial" }
  /\ backendFailures = << >> \/ backendFailures[1] # 1
  /\ firstResponse.candidates = << >>
  /\ firstResponse.text < 50
C3_ThreeRephrasings ==
  << "prompt", "call_get_review_prompts", "start_get_pr_details",
     "use_tools_get_pr_details" >>
C3_ForcedFallback ==
  (C3_FirstShallow /\ ~forceElicited) =>
    /\ pc \in { "awaitForce", "done" }
    /\ Len(prompts) <= 4
    /\ prompts = SubSeq(C3_ThreeRephrasings, 1, Len(prompts))
    /\ pc = "awaitForce" => Len(prompts) = strategy + 1
    /\ pc = "done" => (prompts = C3_ThreeRephrasings /\ result.kind = "placeholder")
C3_Witness ==
  /\ C3_FirstShallow
  /\ ~forceElicited
  /\ backendFailures = << >>
  /\ pc = "done"
  /\ result.kind = "placeholder"

\* C4: when the first response has no tool request and a text shorter than
\* 50 characters (or empty), the message reviewPullRequest returns is not the
\* text of that first response.
C4_ShallowNeverAccepted ==
  (Returned /\ firstResponse.candidates = << >> /\ firstResponse.text < 50)
    => ~(result.kind = "text" /\ result.from = 1)
C4_Witness ==
  /\ Returned
  /\ firstResponse.candidates = << >>
  /\ firstResponse.text < 50
  /\ result.kind = "text"

\* C5: when the backend call of a rephrased prompt throws, reviewPullRequest
\* does not throw: the step goes on to the next rephrasing, or, after the
\* last one, returns the placeholder.
C5_ForcedFailuresDegrade ==
  [][ (pc = "awaitForce" /\ Len(backendFailures') > Len(backendFailures))
        => \/ strategy < 3 /\ pc' = "awaitForce" /\ strategy' = strategy + 1
                           /\ Len(prompts') = Len(prompts) + 1
           \/ strategy = 3 /\ pc' = "done" /\ result'.kind = "placeholder" ]_vars
C5_Witness ==
  /\ pc = "done"
  /\ result.kind = "placeholder"
  /\ Len(backendFailures) = 3

\* C6: once a backend call has thrown, the session has failed and has made no
\* backend call after it (stated for the sessions outside the forced
\* retries, where C5 asks for the opposite).
C6_BackendFailureFatal ==
  (backendFailures # << >> /\ strategy = 0)
    => (pc = "failed" /\ nBackend = backendFailures[1] /\ inFlight = { })

\* C7: when a requested tool throws, the step that takes the error in does
\* not fail the session: it gives the backend a tool response under the
\* tool's name with the error as payload (pushed to the history the chat is
\* started with, or sent to the chat) and the session goes on.
C7_ErrorResponse ==
  [role |-> "function", name |-> lastTool'.name, response |-> "error",
   req |-> lastTool'.req]
C7_ToolFailureContinues ==
  [][ (AwaitsTool /\ lastTool' # lastTool /\ lastTool'.outcome = "error")
        => /\ lastTool'.name = callsIter[idx]
           /\ pc = "awaitBatchTool" =>
                /\ pc' \in { "awaitBatchTool", "awaitContinuation" }
                /\ Last(conversationHistory') = C7_ErrorResponse
           /\ pc = "awaitLoopTool" =>
                /\ pc' = "awaitLoopErrSend"
                /\ Last(turnSent').msg = "functionResponse"
                /\ Last(turnSent').name = lastTool'.name
                /\ Last(turnSent').response = "error"
                /\ Last(turnSent').req = lastTool'.req ]_vars
C7_Witness ==
  /\ pc = "awaitLoopErrSend"
  /\ lastTool.outcome = "error"
  /\ lastTool.name = "get_pr_details"
  /\ backendFailures = << >>

\* C8: when the session returns, every tool request of every backend
\* response it received has been passed to executeToolFunction (stated for
\* the sessions that did not go through the forced retries).
C8_EveryRequestExecuted ==
  (Returned /\ strategy = 0) => pending = { }

\* C9: the tool calls of one backend response are executed one at a time in
\* the order received: at most one execution is in flight, call k+1 is in
\* flight only when the responses of calls 1..k have been recorded, and the
\* tool responses stand in request order in the history the chat is started
\* with and among the messages sent to the chat.
C9_IsToolResponse(m) == m.msg = "functionResponse"
C9_SequentialInOrder ==
  LET hist == SubSeq(conversationHistory, 3, Len(conversationHistory))
      chat == SelectSeq(turnSent, C9_IsToolResponse)
  IN /\ Cardinality(inFlight) <= 1
     /\ AwaitsTool => inFlight = { << iterId, idx >> }
     /\ \A k \in 1..Len(hist) :
          /\ hist[k].role = "function"
          /\ hist[k].req = << conversationHistory[2].req[1], k >>
     /\ pc = "awaitBatchTool" =>
          /\ Len(hist) = idx - 1
          /\ \A k \in 1..Len(hist) : hist[k].name = callsIter[k]
     /\ \A i \in 1..Len(chat) :
          /\ chat[i].req[1] = iterId
          /\ chat[i].name = callsIter[chat[i].req[2]]
          /\ \A j \in 1..Len(chat) : i < j => chat[i].req[2] <= chat[j].req[2]
     /\ pc = "awaitLoopTool" =>
          { chat[i].req[2] : i \in 1..Len(chat) } = 1..(idx - 1)
C9_Witness ==
  /\ pc = "awaitLoopTool"
  /\ idx = 2
  /\ inFlight = { << iterId, 2 >> }
  /\ Len(conversationHistory) = 4

\* C10: the backend is not contacted between the executions of the tools one
\* response requests: a tool response is on its way to the backend only when
\* the last requested tool of the turn has been executed.
C10_ResponsesSentPerTurn ==
  pc \in { "awaitLoopSend", "awaitLoopErrSend" } => idx = Len(callsIter)

(***************************************************************************)
(* Strings.  A string is the sequence of its atoms; an atom stands for the *)
(* characters it is written with.  "/" and each decimal digit are atoms of *)
(* one character, and no atom holds a "/", a digit, or a part of           *)
(* "github.com" or "pull" unless it is that word, so the regular           *)
(* expression of parsePRUrl reads a sequence of atoms as it reads the      *)
(* string.  << >> is the empty string.                                     *)
(***************************************************************************)
Digits == << "0", "1", "2", "3", "4", "5", "6", "7", "8", "9" >>
IsDigit(a) == \E i \in 1..Len(Digits) : Digits[i] = a
DigitValue(a) == (CHOOSE i \in 1..Len(Digits) : Digits[i] = a) - 1

\* the atom at position k, "" past the end of the string
At(u, k) == IF k \in 1..Len(u) THEN u[k] ELSE ""

\* get_pr_files.js:85  parseInt(match[3]), match[3] a string of digits
RECURSIVE parseInt(_)
parseInt(ds) ==
  IF ds = << >> THEN 0
  ELSE 10 * parseInt(SubSeq(ds, 1, Len(ds) - 1)) + DigitValue(ds[Len(ds)])

\* get_pr_files.js:77  the positions [^/] and \d match
NonSlash(u) == { k \in 1..Len(u) : u[k] # "/" }
DigitAt(u) == { k \in 1..Len(u) : IsDigit(u[k]) }

\* get_pr_files.js:77  + is greedy: the end of the longest run of positions
\* of S that starts at i (i - 1 when the run is empty)
RunEnd(u, i, S) ==
  CHOOSE j \in (i - 1)..(IF Len(u) < i THEN i - 1 ELSE Len(u)) :
    /\ \A k \in i..j : k \in S
    /\ j + 1 \notin S

\* get_pr_files.js:77  the attempt of
\* /github\.com\/([^/]+)\/([^/]+)\/pull\/(\d+)/ at position i.  The groups
\* [^/]+ are followed by "/", so only their longest run can match.  o2, r2
\* and d2 are the ends of the three groups.
Groups(u, i, o2, r2, d2) ==
  [ ok |-> /\ At(u, i) = "github.com"
           /\ At(u, i + 1) = "/"
           /\ o2 >= i + 2
           /\ At(u, o2 + 1) = "/"
           /\ r2 >= o2 + 2
           /\ At(u, r2 + 1) = "/"
           /\ At(u, r2 + 2) = "pull"
           /\ At(u, r2 + 3) = "/"
           /\ d2 >= r2 + 4,
    owner |-> SubSeq(u, i + 2, o2),
    repo |-> SubSeq(u, o2 + 2, r2),
    digits |-> SubSeq(u, r2 + 4, d2) ]
NumberGroup(u, i, o2, r2) ==
  Groups(u, i, o2, r2, RunEnd(u, r2 + 4, DigitAt(u)))
RepoGroup(u, i, o2) ==
  NumberGroup(u, i, o2, RunEnd(u, o2 + 2, NonSlash(u)))
MatchAt(u, i) == RepoGroup(u, i, RunEnd(u, i + 2, NonSlash(u)))

\* String.prototype.match is not anchored: it returns the leftmost match
Starts(u) == { i \in 1..Len(u) : MatchAt(u, i).ok }
Leftmost(S) == CHOOSE k \in S : \A l \in S : k <= l
InvalidUrl == [kind |-> "error", message |-> "Invalid GitHub PR URL format"]

\* get_pr_files.js:82-86
\* (variant: \d in place of \d+)
MatchedOneDigit(m) ==
  [kind |-> "ok", owner |-> m.owner, repo |-> m.repo,
   pull_number |-> parseInt(SubSeq(m.digits, 1, 1))]
Matched(m) ==
  [kind |-> "ok", owner |-> m.owner, repo |-> m.repo,
   pull_number |-> parseInt(m.digits)]

\* get_pr_files.js:76-87  GitHubService.parsePRUrl
parsePRUrl(u) ==
  IF Starts(u) = { } THEN InvalidUrl
  ELSE Matched(MatchAt(u, Leftmost(Starts(u))))

(***************************************************************************)
(* parsePRUrl applied to one string.  The strings are built from parts:    *)
(* what precedes the host, the host, the owner and repository segments     *)
(* (each may be missing or empty), the "pull" segment, the number and      *)
(* what follows it.                                                        *)
(***************************************************************************)
\* the greatest pull request number of the well-formed URLs
MaxPullNumber == 12

\* the decimal digits of n, as `${n}` writes them
RECURSIVE Decimal(_)
Decimal(n) ==
  IF n < 10 THEN << Digits[n + 1] >>
  ELSE Decimal(n \div 10) \o << Digits[(n % 10) + 1] >>

Hosts == { << "github.com" >>, << "x", "github.com" >>, << "gitlab.com" >> }
Names == { << "o" >>, << "github.com" >>, << "pull" >> }
Https == << "https:", "/", "/" >>
Path(owner, repo, number) ==
  << "/" >> \o owner \o << "/" >> \o repo \o << "/", "pull", "/" >> \o number
\* https://<host>/<owner>/<repo>/pull/<n>
WellFormedUrl(host, owner, repo, n) ==
  Https \o host \o Path(owner, repo, Decimal(n))
WellFormedUrls ==
  { WellFormedUrl(h, o, r, n) : h \in Hosts, o \in Names, r \in Names,
                                n \in 0..MaxPullNumber }
\* strings that are not of the form <host>/<owner>/<repo>/pull/<number>
MalformedUrls ==
  { pre \o << "github.com" >> \o own \o rep \o kind \o num \o suf :
      pre \in { << >>, Https, << "x", "/" >> \o Https, << "x" >> },
      own \in { << "/", "o" >>, << "/" >>, << >> },
      rep \in { << "/", "r" >>, << "/" >>, << >> },
      kind \in { << "/", "pull", "/" >>, << "/", "issues", "/" >>,
                 << "/", "pull", "x", "/" >>, << "/" >> },
      num \in { << "7" >>, << "x" >>, << "7", "x" >>, << >> },
      suf \in { << >>, << "/", "files" >> } }
  \ { pre \o << "github.com" >> \o Path(<< "o" >>, << "r" >>, << "7" >>) :
        pre \in { << >>, Https } }
UrlInputs == WellFormedUrls \cup MalformedUrls

ParseInit ==
  /\ url \in UrlInputs
  /\ parsed = NoOutcome
  /\ pc = "start"
  /\ SessionFresh
  /\ ToolIdle
  /\ HttpIdle
  /\ CallIdle
  /\ ObjFresh
  /\ AnalysisIdle
  /\ TwoIdle

\* get_pr_files.js:76-87  parsePRUrl(url) returns or throws
ParsePRUrl ==
  /\ parsed = NoOutcome
  /\ parsed' = parsePRUrl(url)
  /\ UNCHANGED << url, vars, toolVars, httpVars, callVars, objVars,
                  analysisVars, twoVars >>

ParseNext == ParsePRUrl

ParseSpec == ParseInit /\ [][ParseNext]_allVars

\* the path of a URL that starts with https://<host>
C14_PathOf(u, host) == SubSeq(u, Len(Https) + Len(host) + 1, Len(u))
\* parsePRUrl returned exactly owner, repo and n, and the path rebuilt from
\* what it returned is the path of the input
C14_RoundTrips(host, owner, repo, n) ==
  /\ parsed.kind = "ok"
  /\ parsed.owner = owner
  /\ parsed.repo = repo
  /\ parsed.pull_number = n
  /\ Path(parsed.owner, parsed.repo, Decimal(parsed.pull_number)) = C14_PathOf(url, host)

MaxFiles == 2

\* tools/index.js:25-40  the name of each definition, in order
\* (variant: getPRDetailsToolDefinition stands where getPRFilesToolDefinition
\* should)
toolDefinitionsDuplicate ==
  << "get_pr_details", "get_pr_details", "get_pr_commits", "get_file_content",
     "post_pr_review", "get_repo_info", "get_review_prompts",
     "analyze_code_quality", "analyze_diff_impact", "detect_security_issues",
     "detect_code_patterns", "analyze_dependencies", "analyze_test_coverage",
     "generate_suggestions" >>
toolDefinitions ==
  << "get_pr_details", "get_pr_files", "get_pr_commits", "get_file_content",
     "post_pr_review", "get_repo_info", "get_review_prompts",
     "analyze_code_quality", "analyze_diff_impact", "detect_security_issues",
     "detect_code_patterns", "analyze_dependencies", "analyze_test_coverage",
     "generate_suggestions" >>

\* the handlers declared (github, analysis, args); the others are declared
\* (github, args)
AnalysisTools ==
  { "analyze_code_quality", "analyze_diff_impact", "detect_security_issues",
    "detect_code_patterns", "analyze_dependencies", "analyze_test_coverage",
    "generate_suggestions" }
\* handler.length: the number of parameters the handler declares
\* (variant: generate_suggestions declares its last parameter with a default
\* value, which handler.length does not count)
ArityDefaulted(name) ==
  IF name \in AnalysisTools \ { "generate_suggestions" } THEN 3 ELSE 2
Arity(name) == IF name \in AnalysisTools THEN 3 ELSE 2

\* tools/index.js:43  toolHandlers is an object literal: besides its own 14
\* keys a lookup finds the properties of Object.prototype.  Three of them:
\* the function Object (length 1), the function Object.prototype.toString
\* (length 0) and Object.prototype itself, which is no function.
Inherited ==
  [ constructor |-> [function |-> TRUE, fn |-> "Object", length |-> 1],
    toString |-> [function |-> TRUE, fn |-> "Object.prototype.toString",
                  length |-> 0],
    __proto__ |-> [function |-> FALSE, fn |-> "Object.prototype",
                   length |-> 0] ]

\* tools/index.js:43-58, analysis.js:1164, hosted.js:160  toolHandlers[name]
Lookup(name) ==
  IF name \in toolHandlers
  THEN [found |-> TRUE, own |-> TRUE, function |-> TRUE, fn |-> name,
        length |-> Arity(name)]
  ELSE IF name \in DOMAIN Inherited
       THEN [found |-> TRUE, own |-> FALSE,
             function |-> Inherited[name].function, fn |-> Inherited[name].fn,
             length |-> Inherited[name].length]
       ELSE [found |-> FALSE, own |-> FALSE, function |-> FALSE, fn |-> "",
             length |-> 0]

\* index.js:315-358  the case labels of the switch
SwitchCases ==
  { "get_pr_details", "get_pr_files", "get_pr_commits", "get_file_content",
    "post_pr_review", "get_repo_info", "get_review_prompts",
    "analyze_code_quality", "analyze_diff_impact", "detect_security_issues",
    "detect_code_patterns", "analyze_dependencies", "analyze_test_coverage",
    "generate_suggestions" }

Servers == { "mcp", "switch", "session" }

\* analysis.js:1173-1176  handler.length === 3;  hosted.js:171-180  the name
\* is none of the seven listed;  index.js: each method uses this.analysis
\* when it needs it
PassesAnalysis(server, name, h) ==
  CASE server = "mcp" -> h.length = 3
    [] server = "session" ->
         name \notin { "get_pr_details", "get_pr_files", "get_pr_commits",
                       "get_file_content", "post_pr_review", "get_repo_info",
                       "get_review_prompts" }
    [] OTHER -> name \in AnalysisTools

\* most requests one server takes, one after the other
MaxInvocations == 3

\* the names invoked: the registered ones, a case variant, an unregistered
\* name and three names Object.prototype defines
InvokedNames ==
  toolHandlers \cup { "Get_PR_Details", "unknown_tool", "constructor",
                      "toString", "__proto__" }

(***************************************************************************)
(* Arguments.  An argument mapping is a function from the names of the     *)
(* arguments given to their values; an argument that is not given is       *)
(* undefined in the handler.  String values are strings of atoms.          *)
(***************************************************************************)
GoodUrl == WellFormedUrl(<< "github.com" >>, << "o" >>, << "r" >>, 7)
\* https://github.com/o/r/pull/7x  and  https://gitlab.com/o/r/pull/7
GarbageNumberUrl == GoodUrl \o << "x" >>
OtherHostUrl == WellFormedUrl(<< "gitlab.com" >>, << "o" >>, << "r" >>, 7)
PrUrlArgs == { << >>, GoodUrl, GarbageNumberUrl, OtherHostUrl }
StringArgs == { << >>, << "v" >> }
\* a review comment as a caller gives it (post_pr_review.js:22-37 names
\* path, line and body; a caller may give more)
CommentLists ==
  { << >>, << [path |-> "f", line |-> 1, body |-> "c", side |-> "RIGHT"] >> }

Optional(k, S) == { << >> } \cup { [x \in { k } |-> v] : v \in S }

\* the argument mappings a tool is invoked with
ArgsFor(name) ==
  CASE name = "post_pr_review" ->
         { a @@ b @@ c @@ d : a \in Optional("pr_url", PrUrlArgs),
                              b \in Optional("body", StringArgs),
                              c \in Optional("event", { << "APPROVE" >> }),
                              d \in Optional("comments", CommentLists) }
    [] name = "get_pr_files" ->
         { a @@ b : a \in Optional("pr_url", PrUrlArgs),
                    b \in Optional("include_patch", BOOLEAN) }
    [] name = "generate_suggestions" ->
         { a @@ b : a \in Optional("pr_url", PrUrlArgs),
                    b \in Optional("file_path", StringArgs) }
    [] name = "get_file_content" ->
         { a @@ b @@ c @@ d : a \in Optional("owner", StringArgs),
                              b \in Optional("repo", StringArgs),
                              c \in Optional("path", StringArgs),
                              d \in Optional("ref", { << "dev" >> }) }
    [] name = "get_repo_info" ->
         { a @@ b : a \in Optional("owner", StringArgs),
                    b \in Optional("repo", StringArgs) }
    [] name = "get_review_prompts" ->
         Optional("random_string", StringArgs)
    [] OTHER -> Optional("pr_url", PrUrlArgs)

\* const { k = d } = args : the default replaces undefined only
Default(args, k, d) == IF k \in DOMAIN args THEN args[k] ELSE d
\* !k is false: the argument is given and is not the empty string
\* (variant: !k is false for the empty string too)
TruthyWhenGiven(args, k) == k \in DOMAIN args
Truthy(args, k) == k \in DOMAIN args /\ args[k] # << >>

\* inputSchema.required of each tool definition (post_pr_review.js:41,
\* generate_suggestions.js:28, get_pr_details.js:17, ...)
required(name) ==
  CASE name = "post_pr_review" -> { "pr_url", "body" }
    [] name = "generate_suggestions" -> { "pr_url", "file_path" }
    [] name = "get_file_content" -> { "owner", "repo", "path" }
    [] name = "get_repo_info" -> { "owner", "repo" }
    [] name = "get_review_prompts" -> { }
    [] OTHER -> { "pr_url" }

\* the arguments a handler tests before anything else (post_pr_review.js:48,
\* generate_suggestions.js:35, get_pr_details.js:24, ...)
Tested(name) ==
  CASE name = "post_pr_review" -> { "pr_url", "body" }
    [] name = "generate_suggestions" -> { "pr_url", "file_path" }
    [] name = "get_file_content" -> { "owner", "repo", "path" }
    [] name = "get_repo_info" -> { "owner", "repo" }
    [] name = "get_review_prompts" -> { }
    [] OTHER -> { "pr_url" }
ValidationMessage(name) ==
  CASE name = "post_pr_review" -> "PR URL and body are required"
    [] name = "generate_suggestions" -> "PR URL and file path are required"
    [] name = "get_file_content" -> "Owner, repo, and path are required"
    [] name = "get_repo_info" -> "Owner and repo are required"
    [] OTHER -> "PR URL is required"

(***************************************************************************)
(* What a handler returns or throws, and what a dispatcher makes of it.    *)
(***************************************************************************)
Error(message) ==
  [kind |-> "error", code |-> "Error", message |-> message, cause |-> ""]
\* JSON.stringify(value, null, 2) of an object: the text of a JSON object.
\* A member whose value is undefined is not written; the model gives an
\* undefined member no key.
JSONStringify(value) == [format |-> "json", top |-> "object", value |-> value]
\* get_review_prompts.js:23-156  header + content: a Markdown document
GuidelineText == [format |-> "markdown", top |-> "text", value |-> << >>]
\* index.js:533-658  header + content of the method of the same name: the
\* document without its preamble and its section 11
GuidelineTextInline ==
  [format |-> "markdown", top |-> "text", value |-> << "index.js" >>]
\* return { content: [ { type: 'text', text } ] }
ToolResult(text) ==
  [kind |-> "result", content |-> << [type |-> "text", text |-> text] >>]
\* a value that is not built by a handler
ForeignValue(v) == [kind |-> "value", value |-> v]

\* analysis.js:1164-1169  McpError(MethodNotFound) thrown before the try;
\* index.js:360-369  McpError(MethodNotFound) thrown inside the try, caught
\* at 365 and replaced;  hosted.js:162-165  Error('Unknown function: ...')
UnknownTool(server) ==
  CASE server = "mcp" ->
         [kind |-> "error", code |-> "MethodNotFound",
          message |-> "Unknown tool", cause |-> ""]
    [] server = "switch" ->
         [kind |-> "error", code |-> "InternalError",
          message |-> "Tool execution failed", cause |-> "Unknown tool"]
    [] OTHER -> Error("Unknown function")
\* analysis.js:1178-1185, index.js:365-369  catch (error) { throw new
\* McpError(InternalError, `Tool execution failed: ${error.message}`) };
\* executeToolFunction has no catch
Thrown(server, e) ==
  IF server = "session" THEN e
  ELSE [kind |-> "error", code |-> "InternalError",
        message |-> "Tool execution failed", cause |-> e.message]

(***************************************************************************)
(* The handlers, from their call to their first await.  Each operator      *)
(* gives the await the handler is suspended on ("done" when it has         *)
(* returned or thrown), the calls made so far and what it returned or      *)
(* threw.                                                                  *)
(***************************************************************************)
Stopped(gh, out) ==
  [tpc |-> "done", githubCalls |-> gh, octokitCalls |-> << >>, outcome |-> out]
Suspended(at, gh, ok) ==
  [tpc |-> at, githubCalls |-> gh, octokitCalls |-> ok, outcome |-> NoOutcome]

\* get_pr_files.js:92-100  getPRDetails(url) up to await octokit.pulls.get;
\* p is what parsePRUrl(url) returned or threw
PullsGet(u, p) ==
  IF p.kind = "error"
  THEN Stopped(<< [method |-> "getPRDetails", args |-> << u >>] >>,
               Error(p.message))
  ELSE Suspended("awaitPullsGet",
                 << [method |-> "getPRDetails", args |-> << u >>] >>,
                 << [api |-> "pulls.get",
                     params |-> [owner |-> p.owner, repo |-> p.repo,
                                 pull_number |-> p.pull_number]] >>)
GetPRDetailsStart(u) == PullsGet(u, parsePRUrl(u))

\* get_pr_files.js:198-217  createReview(owner, repo, pull_number, review)
\* up to await octokit.pulls.createReview(reviewData)
MapComments(comments) ==
  IF Len(comments) > 0
  THEN [comments |-> [i \in 1..Len(comments) |->
                        [path |-> comments[i].path, line |-> comments[i].line,
                         body |-> comments[i].body]]]
  ELSE << >>
ReviewData(p, review) ==
  [owner |-> p.owner, repo |-> p.repo, pull_number |-> p.pull_number,
   body |-> review.body, event |-> Default(review, "event", << "COMMENT" >>)]
  @@ MapComments(Default(review, "comments", << >>))

\* post_pr_review.js:46, 54-58  the review the handler passes on
\* (variant: the given event is not passed on)
ReviewCommentOnly(args) ==
  [body |-> args.body, event |-> << "COMMENT" >>,
   comments |-> Default(args, "comments", << >>)]
Review(args) ==
  [body |-> args.body, event |-> Default(args, "event", << "COMMENT" >>),
   comments |-> Default(args, "comments", << >>)]

\* post_pr_review.js:52-58  parsePRUrl, then createReview; p is what
\* parsePRUrl(pr_url) returned or threw
CreateReview(args, p, review) ==
  IF p.kind = "error"
  THEN Stopped(<< [method |-> "parsePRUrl", args |-> << args.pr_url >>] >>,
               Error(p.message))
  ELSE Suspended("awaitCreateReview",
                 << [method |-> "parsePRUrl", args |-> << args.pr_url >>],
                    [method |-> "createReview",
                     args |-> << p.owner, p.repo, p.pull_number, review >>] >>,
                 << [api |-> "pulls.createReview",
                     params |-> ReviewData(p, review)] >>)
PostPRReviewStart(args) ==
  CreateReview(args, parsePRUrl(args.pr_url), Review(args))

\* get_file_content (handleGetFileContent), get_pr_files.js:173-180
GetContent(args, ref) ==
  Suspended("awaitGetContent",
            << [method |-> "getFileContent",
                args |-> << args.owner, args.repo, args.path, ref >>] >>,
            << [api |-> "repos.getContent",
                params |-> [owner |-> args.owner, repo |-> args.repo,
                            path |-> args.path, ref |-> ref]] >>)
GetFileContentStart(args) == GetContent(args, Default(args, "ref", << "main" >>))

\* get_repo_info (handleGetRepoInfo): Promise.all of getRepoLanguages and
\* getRepoREADME, get_pr_files.js:224-240; both requests are issued before
\* the await
GetRepoInfoStart(args) ==
  Suspended("awaitRepoInfo",
            << [method |-> "getRepoLanguages", args |-> << args.owner, args.repo >>],
               [method |-> "getRepoREADME", args |-> << args.owner, args.repo >>] >>,
            << [api |-> "repos.listLanguages",
                params |-> [owner |-> args.owner, repo |-> args.repo]],
               [api |-> "repos.getReadme",
                params |-> [owner |-> args.owner, repo |-> args.repo]] >>)

\* get_review_prompts.js:21-166  handleGetReviewPrompts(_github, _args)
\* returns the document; it reads neither parameter and calls nothing
\* (variant: the document quotes the arguments it was called with)
handleGetReviewPromptsQuotes(hasArgs, args) ==
  Stopped(<< >>, ToolResult([format |-> "markdown", top |-> "text",
                             value |-> << hasArgs, args >>]))
handleGetReviewPrompts(hasArgs, args) ==
  Stopped(<< >>, ToolResult(GuidelineText))

\* a handler from its call to its first await.  hasArgs is false when the
\* parameter args is undefined: the destructuring throws a TypeError.
HandlerStart(name, hasArgs, args) ==
  IF name = "get_review_prompts"
  THEN handleGetReviewPrompts(hasArgs, args)
  ELSE IF ~hasArgs
  THEN Stopped(<< >>, Error("Cannot destructure property of undefined"))
  ELSE IF \E k \in Tested(name) : ~Truthy(args, k)
  THEN Stopped(<< >>, Error(ValidationMessage(name)))
  ELSE CASE name = "post_pr_review" -> PostPRReviewStart(args)
         [] name = "get_file_content" -> GetFileContentStart(args)
         [] name = "get_repo_info" -> GetRepoInfoStart(args)
         [] OTHER -> GetPRDetailsStart(args.pr_url)

(***************************************************************************)
(* The dispatchers, from the request to the first await of the handler.    *)
(***************************************************************************)
\* what a call of the function found under an inherited name returns:
\* Object(github, ...) is github itself, Object.prototype.toString() with
\* no receiver is "[object Undefined]"
ForeignReturn(h) ==
  IF h.fn = "Object" THEN ForeignValue("github")
  ELSE ForeignValue("[object Undefined]")

\* the call of a registered handler with the collaborators the dispatcher
\* passes: a handler of three parameters called with (github, args) finds
\* its args undefined; a handler of two parameters called with (github,
\* analysis, args) finds the analysis provider where it expects args
\* analysis.js:1173-1177  handler(this.github, this.analysis, args) or
\* handler(this.github, args);  hosted.js:175, 179  the same with services;
\* index.js:315-358  this.handleX(args)
Passed(server, name, h) ==
  IF server = "switch" THEN << "args" >>
  ELSE IF PassesAnalysis(server, name, h)
       THEN << "github", "analysis", "args" >>
       ELSE << "github", "args" >>
Called(server, name, passed, d) ==
  [handlerCalled |-> name, handlerArgs |-> passed, tpc |-> d.tpc,
   githubCalls |-> d.githubCalls, octokitCalls |-> d.octokitCalls,
   outcome |-> IF d.outcome.kind = "error"
               THEN Thrown(server, d.outcome) ELSE d.outcome]
HandlerCall(server, name, h, hasArgs, args) ==
  IF server = "switch" /\ name = "get_review_prompts"
  THEN Called(server, name, Passed(server, name, h),
              Stopped(<< >>, ToolResult(GuidelineTextInline)))
  ELSE IF PassesAnalysis(server, name, h) = (Arity(name) = 3)
  THEN Called(server, name, Passed(server, name, h),
              HandlerStart(name, hasArgs, args))
  ELSE IF PassesAnalysis(server, name, h)
       THEN Called(server, name, Passed(server, name, h),
                   HandlerStart(name, TRUE, << >>))
       ELSE Called(server, name, Passed(server, name, h),
                   HandlerStart(name, FALSE, << >>))

NotCalled(out) ==
  [handlerCalled |-> "", handlerArgs |-> << >>, tpc |-> "done",
   githubCalls |-> << >>, octokitCalls |-> << >>, outcome |-> out]

\* analysis.js:1161-1187, hosted.js:158-181 (lookup in toolHandlers) and
\* index.js:311-370 (switch)
Dispatch(server, name, hasArgs, args) ==
  IF server = "switch"
  THEN IF name \in SwitchCases
       THEN HandlerCall(server, name, Lookup(name), hasArgs, args)
       ELSE NotCalled(UnknownTool(server))
  ELSE LET h == Lookup(name)
       IN IF ~h.found
          THEN NotCalled(UnknownTool(server))
          ELSE IF ~h.function
          THEN NotCalled(Thrown(server, Error("handler is not a function")))
          ELSE IF ~h.own
          THEN [handlerCalled |-> h.fn, handlerArgs |-> Passed(server, name, h),
                tpc |-> "done", githubCalls |-> << >>,
                octokitCalls |-> << >>, outcome |-> ForeignReturn(h)]
          ELSE HandlerCall(server, name, h, hasArgs, args)

\* the files octokit.pulls.listFiles returns: a file may have no patch (a
\* binary file), an empty patch or a patch
PlatformFile ==
  { [filename |-> << "a.js" >>, status |-> "modified", sha |-> "1"] @@ p :
      p \in Optional("patch", { << >>, << "diff" >> }) }
FileLists == UNION { [1..n -> PlatformFile] : n \in 0..MaxFiles }

ToolInit ==
  /\ ToolIdle
  /\ pc = "start"
  /\ SessionFresh
  /\ ParseIdle
  /\ HttpIdle
  /\ CallIdle
  /\ ObjFresh
  /\ AnalysisIdle
  /\ TwoIdle

\* analysis.js:1156-1158  ListTools
ListTools ==
  /\ tpc = "idle"
  /\ tpc' = "done"
  /\ request' = [server |-> "mcp", name |-> "tools/list", hasArgs |-> FALSE,
                 args |-> << >>]
  /\ response' = [kind |-> "tools", tools |-> toolDefinitions]
  /\ invocations' = invocations + 1
  /\ UNCHANGED << handlerCalled, githubCalls, octokitCalls, analysisCalls,
                  prFiles, vars, parseVars, httpVars, guidelines, handlerArgs,
                  objVars, analysisVars, twoVars >>

\* analysis.js:1161-1187, index.js:311-370, hosted.js:158-181  a tool is
\* invoked: the dispatcher finds the handler and the handler runs to its
\* first await
Invoke(req, d) ==
  /\ request' = req
  /\ tpc' = d.tpc
  /\ handlerCalled' = d.handlerCalled
  /\ handlerArgs' = d.handlerArgs
  /\ githubCalls' = d.githubCalls
  /\ octokitCalls' = d.octokitCalls
  /\ response' = d.outcome
  /\ invocations' = invocations + 1
  /\ guidelines' =
       IF d.handlerCalled = "get_review_prompts"
       THEN guidelines \cup { << req.server, invocations + 1,
                                d.outcome.content[1].text >> }
       ELSE guidelines
CallTool ==
  /\ tpc = "idle"
  /\ \E server \in Servers, name \in InvokedNames, hasArgs \in BOOLEAN :
       \E args \in (IF hasArgs THEN ArgsFor(name) ELSE { << >> }) :
         Invoke([server |-> server, name |-> name, hasArgs |-> hasArgs,
                 args |-> args],
                Dispatch(server, name, hasArgs, args))
  /\ UNCHANGED << analysisCalls, prFiles, vars, parseVars, httpVars, objVars,
                  analysisVars, twoVars >>

\* analysis.js:1161, index.js:311  the request handler is registered once and
\* takes the next request when the one before has been answered
NextInvocation ==
  /\ tpc = "done"
  /\ invocations < MaxInvocations
  /\ tpc' = "idle"
  /\ request' = NoRequest
  /\ handlerCalled' = ""
  /\ handlerArgs' = << >>
  /\ githubCalls' = << >>
  /\ octokitCalls' = << >>
  /\ analysisCalls' = << >>
  /\ prFiles' = << >>
  /\ response' = NoOutcome
  /\ UNCHANGED << invocations, guidelines, vars, parseVars, httpVars, objVars,
                  analysisVars, twoVars >>

(***************************************************************************)
(* The handlers from one await to the next.                                *)
(***************************************************************************)
\* the handler throws, or a promise it awaits rejects: the dispatcher's
\* catch, if it has one, replaces the error
Fail(e) ==
  /\ tpc' = "done"
  /\ response' = Thrown(request.server, e)
Succeed(text) ==
  /\ tpc' = "done"
  /\ response' = ToolResult(text)
Request(api) == [api |-> api, params |-> octokitCalls[1].params]

\* get_pr_files.js:140-148  getPRDetails keeps these fields of a file; patch
\* is undefined when the platform gave none
PRFile(file) ==
  [filename |-> file.filename, status |-> file.status]
  @@ (IF "patch" \in DOMAIN file THEN [patch |-> file.patch] ELSE << >>)
\* get_pr_files.js:123-167  what getPRDetails returns
PRDetails ==
  [pr |-> "pr",
   files |-> [i \in 1..Len(prFiles) |-> PRFile(prFiles[i])],
   commits |-> << [sha |-> "c1"] >>,
   existing_reviews |-> << >>,
   repository |-> [owner |-> octokitCalls[1].params.owner,
                   repo |-> octokitCalls[1].params.repo]]

\* get_pr_files.js:34-42 (index.js:405-413)  the entry of one file
\* (variant: include_patch is not looked at)
FileEntryAlwaysPatch(file, include_patch) ==
  [filename |-> file.filename, status |-> file.status]
  @@ (IF Truthy(file, "patch") THEN [patch |-> file.patch] ELSE << >>)
FileEntry(file, include_patch) ==
  [filename |-> file.filename, status |-> file.status]
  @@ (IF include_patch /\ Truthy(file, "patch")
      THEN [patch |-> file.patch] ELSE << >>)

\* get_pr_files.js:27-48 (index.js:398-419)
FileEntries(files, include_patch) ==
  [i \in 1..Len(files) |-> FileEntry(files[i], include_patch)]
FilesResult(files) ==
  [reminder |-> "reminder", files |-> files, total_files |-> Len(files)]
PRFilesResult(args, details) ==
  FilesResult(FileEntries(details.files, Default(args, "include_patch", TRUE)))

\* any awaited request to the platform but the two that map a 404 to null
OctokitRejects ==
  /\ tpc \in { "awaitPullsGet", "awaitListFiles", "awaitListCommits",
               "awaitListReviews", "awaitCreateReview" }
  /\ Fail(Error("Request failed"))
  /\ UNCHANGED << request, handlerCalled, githubCalls, octokitCalls,
                  analysisCalls, prFiles, vars, parseVars, httpVars,
                  callVars, objVars, analysisVars, twoVars >>

\* get_pr_files.js:96-107
PullsGetResolves ==
  /\ tpc = "awaitPullsGet"
  /\ tpc' = "awaitListFiles"
  /\ octokitCalls' = Append(octokitCalls, Request("pulls.listFiles"))
  /\ UNCHANGED << request, handlerCalled, githubCalls, analysisCalls, prFiles,
                  response, vars, parseVars, httpVars,
                  callVars, objVars, analysisVars, twoVars >>

\* get_pr_files.js:103-114
ListFilesResolves ==
  /\ tpc = "awaitListFiles"
  /\ \E files \in FileLists : prFiles' = files
  /\ tpc' = "awaitListCommits"
  /\ octokitCalls' = Append(octokitCalls, Request("pulls.listCommits"))
  /\ UNCHANGED << request, handlerCalled, githubCalls, analysisCalls,
                  response, vars, parseVars, httpVars,
                  callVars, objVars, analysisVars, twoVars >>

\* get_pr_files.js:110-121
ListCommitsResolves ==
  /\ tpc = "awaitListCommits"
  /\ tpc' = "awaitListReviews"
  /\ octokitCalls' = Append(octokitCalls, Request("pulls.listReviews"))
  /\ UNCHANGED << request, handlerCalled, githubCalls, analysisCalls, prFiles,
                  response, vars, parseVars, httpVars,
                  callVars, objVars, analysisVars, twoVars >>

\* get_pr_files.js:117-167: getPRDetails returns, and the handler goes on:
\* get_pr_details.js:28-42, get_pr_files.js:33-57, get_pr_commits.js:27-43,
\* or the call of the analysis provider (analyze_code_quality.js:32-33, ...)
ListReviewsResolves ==
  /\ tpc = "awaitListReviews"
  /\ CASE request.name = "get_pr_details" ->
            /\ Succeed(JSONStringify([reminder |-> "reminder",
                                      pr_details |-> PRDetails]))
            /\ UNCHANGED analysisCalls
       [] request.name = "get_pr_files" ->
            /\ Succeed(JSONStringify(PRFilesResult(request.args, PRDetails)))
            /\ UNCHANGED analysisCalls
       [] request.name = "get_pr_commits" ->
            /\ Succeed(JSONStringify([commits |-> PRDetails.commits,
                                      total_commits |-> Len(PRDetails.commits)]))
            /\ UNCHANGED analysisCalls
       [] OTHER ->
            /\ tpc' = "awaitAnalysis"
            /\ analysisCalls' = << [method |-> request.name,
                                    prDetails |-> PRDetails] >>
            /\ UNCHANGED response
  /\ UNCHANGED << request, handlerCalled, githubCalls, octokitCalls, prFiles,
                  vars, parseVars, httpVars,
                  callVars, objVars, analysisVars, twoVars >>

\* the analysis provider throws
AnalysisRejects ==
  /\ tpc = "awaitAnalysis"
  /\ Fail(Error("Analysis failed"))
  /\ UNCHANGED << request, handlerCalled, githubCalls, octokitCalls,
                  analysisCalls, prFiles, vars, parseVars, httpVars,
                  callVars, objVars, analysisVars, twoVars >>

\* analyze_code_quality.js:33-50, generate_suggestions.js:40-59, ...
AnalysisResolves ==
  /\ tpc = "awaitAnalysis"
  /\ Succeed(JSONStringify([analysis_type |-> request.name,
                            pr_url |-> request.args.pr_url,
                            analysis |-> "analysisResult"]))
  /\ UNCHANGED << request, handlerCalled, githubCalls, octokitCalls,
                  analysisCalls, prFiles, vars, parseVars, httpVars,
                  callVars, objVars, analysisVars, twoVars >>

\* post_pr_review.js:54-75
CreateReviewResolves ==
  /\ tpc = "awaitCreateReview"
  /\ Succeed(JSONStringify([success |-> TRUE, review_id |-> 1,
                            review_url |-> "html_url"]))
  /\ UNCHANGED << request, handlerCalled, githubCalls, octokitCalls,
                  analysisCalls, prFiles, vars, parseVars, httpVars,
                  callVars, objVars, analysisVars, twoVars >>

\* get_pr_files.js:173-193 and handleGetFileContent: a file gives its
\* content, anything else and a 404 give null, another error is rethrown
GetContentSettles ==
  /\ tpc = "awaitGetContent"
  /\ \E o \in { "file", "dir", "404", "error" } :
       IF o = "error"
       THEN Fail(Error("Request failed"))
       ELSE Succeed(JSONStringify(
              [owner |-> request.args.owner, repo |-> request.args.repo,
               path |-> request.args.path,
               ref |-> Default(request.args, "ref", << "main" >>),
               content |-> IF o = "file" THEN "content" ELSE "null"]))
  /\ UNCHANGED << request, handlerCalled, githubCalls, octokitCalls,
                  analysisCalls, prFiles, vars, parseVars, httpVars,
                  callVars, objVars, analysisVars, twoVars >>

\* handleGetRepoInfo and get_pr_files.js:224-248: Promise.all rejects when
\* listLanguages rejects or getReadme rejects with anything but a 404
RepoInfoSettles ==
  /\ tpc = "awaitRepoInfo"
  /\ \E languages \in { "ok", "error" }, readme \in { "ok", "404", "error" } :
       IF languages = "error" \/ readme = "error"
       THEN Fail(Error("Request failed"))
       ELSE Succeed(JSONStringify(
              [owner |-> request.args.owner, repo |-> request.args.repo,
               languages |-> "languages",
               has_readme |-> (readme = "ok"),
               readme_content |-> IF readme = "ok" THEN "readme" ELSE "null"]))
  /\ UNCHANGED << request, handlerCalled, githubCalls, octokitCalls,
                  analysisCalls, prFiles, vars, parseVars, httpVars,
                  callVars, objVars, analysisVars, twoVars >>

ToolNext ==
  \/ ListTools
  \/ CallTool
  \/ NextInvocation
  \/ OctokitRejects
  \/ PullsGetResolves
  \/ ListFilesResolves
  \/ ListCommitsResolves
  \/ ListReviewsResolves
  \/ AnalysisRejects
  \/ AnalysisResolves
  \/ CreateReviewResolves
  \/ GetContentSettles
  \/ RepoInfoSettles

ToolSpec == ToolInit /\ [][ToolNext]_allVars

(***************************************************************************)
(* Properties of the dispatchers and the handlers.                         *)
(***************************************************************************)
Invoked == tpc # "idle" /\ request.name # "tools/list"
NoCollaboratorCalled ==
  githubCalls = << >> /\ octokitCalls = << >> /\ analysisCalls = << >>

\* C11: an invocation under a name that is not one of the 14 registered
\* names fails with the UnknownTool error (MethodNotFound from a protocol
\* server, 'Unknown function' in a session), no function is called as a
\* handler and no collaborator is called
C11_UnknownToolsFailClosed ==
  (Invoked /\ request.name \notin toolHandlers)
    => /\ tpc = "done"
       /\ response.kind = "error"
       /\ IF request.server = "session"
          THEN response.message = "Unknown function"
          ELSE response.code = "MethodNotFound"
       /\ handlerCalled = ""
       /\ NoCollaboratorCalled

\* the argument k is given and is not the empty string
C12_Given(k) ==
  request.hasArgs /\ k \in DOMAIN request.args /\ request.args[k] # << >>
\* a required argument of the invocation is absent or empty
C12_RequiredMissing ==
  /\ Invoked
  /\ request.name \in toolHandlers
  /\ \E k \in required(request.name) : ~C12_Given(k)

C13_Form(v, h2, o2, r2, d2) ==
  /\ h2 >= 1
  /\ At(v, h2 + 1) = "/"
  /\ o2 >= h2 + 2
  /\ At(v, o2 + 1) = "/"
  /\ r2 >= o2 + 2
  /\ At(v, r2 + 1) = "/"
  /\ At(v, r2 + 2) = "pull"
  /\ At(v, r2 + 3) = "/"
  /\ d2 >= r2 + 4
  /\ d2 = Len(v)
C13_AfterRepo(v, h2, o2, r2) ==
  C13_Form(v, h2, o2, r2, RunEnd(v, r2 + 4, DigitAt(v)))
C13_AfterOwner(v, h2, o2) ==
  C13_AfterRepo(v, h2, o2, RunEnd(v, o2 + 2, NonSlash(v)))
C13_AfterHost(v, h2) == C13_AfterOwner(v, h2, RunEnd(v, h2 + 2, NonSlash(v)))
C13_NoScheme(u) ==
  IF Len(u) >= 3 /\ SubSeq(u, 1, 3) = Https THEN SubSeq(u, 4, Len(u)) ELSE u
C13_Conforms(u) ==
  C13_AfterHost(C13_NoScheme(u), RunEnd(C13_NoScheme(u), 1, NonSlash(C13_NoScheme(u))))

\* C13: a tool given a pr_url that is not of the form
\* <host>/<owner>/<repo>/pull/<number> fails with the format error and
\* issues no request to the source platform
C13_UrlFormatEnforced ==
  (/\ Invoked
   /\ request.name \in toolHandlers
   /\ "pr_url" \in required(request.name)
   /\ \A k \in required(request.name) : C12_Given(k)
   /\ ~C13_Conforms(request.args.pr_url))
    => /\ tpc = "done"
       /\ response.kind = "error"
       /\ "Invalid GitHub PR URL format" \in { response.message, response.cause }
       /\ octokitCalls = << >>

\* the calls of createReview made on the platform client, and the
\* pulls.createReview requests issued to the platform
C15_CreateReviewCalls ==
  SelectSeq(githubCalls, LAMBDA c : c.method = "createReview")
C15_CreateReviewRequests ==
  SelectSeq(octokitCalls, LAMBDA c : c.api = "pulls.createReview")
\* post_pr_review was invoked with a pr_url that parses and a body
C15_Valid ==
  /\ C12_Given("pr_url")
  /\ C12_Given("body")
  /\ Starts(request.args.pr_url) # { }

\* C15: an invocation of post_pr_review with valid pr_url and body makes
\* exactly one call of createReview, with the given event (COMMENT when none
\* is given) and the given comments (the empty list when none is given), also
\* after the call has failed; an invocation that fails validation or URL
\* parsing makes none
C15_CreateReviewOnce ==
  (Invoked /\ request.name = "post_pr_review")
    => IF C15_Valid
       THEN /\ Len(C15_CreateReviewCalls) = 1
            /\ Len(C15_CreateReviewRequests) = 1
            /\ C15_CreateReviewCalls[1].args[4].event =
                 (IF "event" \in DOMAIN request.args
                  THEN request.args.event ELSE << "COMMENT" >>)
            /\ C15_CreateReviewCalls[1].args[4].comments =
                 (IF "comments" \in DOMAIN request.args
                  THEN request.args.comments ELSE << >>)
       ELSE /\ Len(C15_CreateReviewCalls) = 0
            /\ Len(C15_CreateReviewRequests) = 0

\* post_pr_review was invoked with an event and no comments, and the
\* platform rejected the review: the invocation has failed after one call
C15_Witness ==
  /\ Invoked
  /\ request.name = "post_pr_review"
  /\ C15_Valid
  /\ "event" \in DOMAIN request.args
  /\ "comments" \notin DOMAIN request.args
  /\ tpc = "done"
  /\ response.kind = "error"
  /\ Len(C15_CreateReviewCalls) = 1

\* the object get_pr_files returned as JSON text
C16_Result == response.content[1].text.value

\* C16: in a result of get_pr_files total_files is the number of entries of
\* files, which is the number of files the platform returned; with
\* include_patch false no entry has a patch field, with include_patch true
\* (or not given) an entry has one exactly when the platform returned a
\* non-empty patch for that file
C16_FilesShape ==
  (Invoked /\ request.name = "get_pr_files" /\ response.kind = "result")
    => /\ C16_Result.total_files = Len(C16_Result.files)
       /\ Len(C16_Result.files) = Len(prFiles)
       /\ \A i \in 1..Len(prFiles) :
            ("patch" \in DOMAIN C16_Result.files[i])
              <=> /\ ("include_patch" \in DOMAIN request.args
                        => request.args.include_patch)
                  /\ "patch" \in DOMAIN prFiles[i]
                  /\ prFiles[i].patch # << >>

\* get_pr_files returned two files with include_patch false although the
\* platform gave a patch for the first and none for the second
C16_Witness ==
  /\ Invoked
  /\ request.name = "get_pr_files"
  /\ response.kind = "result"
  /\ "include_patch" \in DOMAIN request.args
  /\ ~request.args.include_patch
  /\ Len(prFiles) = 2
  /\ "patch" \in DOMAIN prFiles[1]
  /\ prFiles[1].patch = << "diff" >>
  /\ "patch" \notin DOMAIN prFiles[2]

\* the invocation failed with the error of an unknown tool
C17_UnknownToolError ==
  /\ response.kind = "error"
  /\ \/ response.code = "MethodNotFound"
     \/ response.message \in { "Unknown tool", "Unknown function" }
     \/ response.cause \in { "Unknown tool", "Unknown function" }

\* C17: listTools returns one definition per tool name and no name twice,
\* the listed names are exactly the keys of the handler map, and an
\* invocation under a listed name never fails with UnknownTool
C17_RegistryBijection ==
  /\ response.kind = "tools"
       => /\ \A i, j \in 1..Len(response.tools) :
               response.tools[i] = response.tools[j] => i = j
          /\ { response.tools[i] : i \in 1..Len(response.tools) } = toolHandlers
          /\ Len(response.tools) = 14
  /\ (Invoked /\ \E i \in 1..Len(toolDefinitions) :
                   toolDefinitions[i] = request.name)
       => ~C17_UnknownToolError

\* listTools has returned the 14 definitions
C17_Witness ==
  /\ request.name = "tools/list"
  /\ response.kind = "tools"
  /\ Len(response.tools) = 14
  /\ Cardinality(toolHandlers) = 14

\* C18: a successful invocation of one of the 14 tools returns a content
\* sequence of exactly one block, of type text, whose text is a serialized
\* JSON object
C18_ResultBoundary ==
  (Invoked /\ tpc = "done" /\ request.name \in toolHandlers
           /\ response.kind # "error")
    => /\ response.kind = "result"
       /\ Len(response.content) = 1
       /\ response.content[1].type = "text"
       /\ response.content[1].text.format = "json"
       /\ response.content[1].text.top = "object"

(***************************************************************************)
(* The hosted endpoint POST /review (hosted.js:9-60).  Here a string is    *)
(* the sequence of its characters.  The request handler awaits             *)
(* reviewPullRequest, which is the session modelled above: its actions are *)
(* the steps between the call and the response.                            *)
(***************************************************************************)
Bearer == << "B", "e", "a", "r", "e", "r", " " >>

\* String.prototype.split(',') : the pieces between the commas
RECURSIVE split(_)
split(str) ==
  IF \A i \in 1..Len(str) : str[i] # ","
  THEN << str >>
  ELSE << SubSeq(str, 1, (CHOOSE i \in 1..Len(str) :
                            str[i] = "," /\ \A j \in 1..(i - 1) : str[j] # ",") - 1) >>
       \o split(SubSeq(str, (CHOOSE i \in 1..Len(str) :
                               str[i] = "," /\ \A j \in 1..(i - 1) : str[j] # ",") + 1,
                       Len(str)))

\* hosted.js:9  process.env.VALID_API_KEYS?.split(',') || []
\* env.set is false when the variable is not set
ValidApiKeys(env) == IF env.set THEN split(env.value) ELSE << >>
\* the environments: VALID_API_KEYS unset, empty, and "a,b"
Environments ==
  { [set |-> FALSE, value |-> << >>], [set |-> TRUE, value |-> << >>],
    [set |-> TRUE, value |-> << "a", ",", "b" >>] }

\* the Authorization headers of the requests
Authorizations ==
  { Bearer \o << "a" >>, Bearer \o << "b" >>, Bearer \o << "c" >>, Bearer,
    << "B", "e", "a", "r", "e", "r" >>,
    << "b", "e", "a", "r", "e", "r", " ", "a" >>,
    << "B", "a", "s", "i", "c", " ", "a" >>, << "a" >>,
    Bearer \o << "a", ",", "b" >>, Bearer \o << " ", "a" >> }
\* the requests: with or without an Authorization header, with or without a
\* pr in the body, which may be the empty string
HttpRequests ==
  { [received |-> TRUE, hasHeader |-> h, authorization |-> a, hasPr |-> p,
     pr |-> v] :
      h \in BOOLEAN, a \in Authorizations \cup { << >> }, p \in BOOLEAN,
      v \in { << >>, GoodUrl } }
  \ { r \in [received : { TRUE }, hasHeader : BOOLEAN,
             authorization : Authorizations \cup { << >> }, hasPr : BOOLEAN,
             pr : { << >>, GoodUrl }] :
        \/ ~r.hasHeader /\ r.authorization # << >>
        \/ ~r.hasPr /\ r.pr # << >> }

\* String.prototype.startsWith and Array.prototype.includes
startsWith(str, prefix) ==
  Len(str) >= Len(prefix) /\ SubSeq(str, 1, Len(prefix)) = prefix
includes(list, x) == \E i \in 1..Len(list) : list[i] = x

\* hosted.js:23-24  authHeader?.startsWith('Bearer ') ? authHeader.slice(7)
\* : null;  null is given as no key
ApiKey(req) ==
  IF req.hasHeader /\ startsWith(req.authorization, Bearer)
  THEN [isNull |-> FALSE, key |-> SubSeq(req.authorization, 8, Len(req.authorization))]
  ELSE [isNull |-> TRUE, key |-> << >>]
\* hosted.js:26  !(!apiKey || !validApiKeys.includes(apiKey))
\* (variant: !apiKey is true for null only)
AuthenticatedEmptyKey(key, keys) == ~key.isNull /\ includes(keys, key.key)
Authenticated(key, keys) ==
  ~key.isNull /\ key.key # << >> /\ includes(keys, key.key)

\* hosted.js:53-59  the status of the response to what reviewPullRequest
\* returned or threw
\* (variant: the placeholder answer is answered as a failure)
StatusOfDegradedFails(res) ==
  IF res.kind \in { "error", "placeholder" } THEN 500 ELSE 200
StatusOf(res) == IF res.kind = "error" THEN 500 ELSE 200

HostedInit ==
  /\ pc = "notCalled"
  /\ SessionFresh
  /\ ToolIdle
  /\ ParseIdle
  /\ \E env \in Environments : validApiKeys = ValidApiKeys(env)
  /\ httpRequest = NoHttpRequest
  /\ httpResponse = NoHttpResponse
  /\ reviewCalls = 0
  /\ CallIdle
  /\ ObjFresh
  /\ AnalysisIdle
  /\ TwoIdle

\* hosted.js:22-31, 46-54  a POST /review request arrives: authenticateApiKey
\* answers 401 or calls next(); the handler answers 400 or calls
\* reviewPullRequest(pr) and awaits it
ReceiveReview ==
  /\ ~httpRequest.received
  /\ \E req \in HttpRequests :
       /\ httpRequest' = req
       /\ IF ~Authenticated(ApiKey(req), validApiKeys)
          THEN /\ httpResponse' = [status |-> 401,
                                   body |-> [error |-> "Invalid or missing API key"]]
               /\ UNCHANGED << pc, reviewCalls >>
          ELSE IF ~req.hasPr \/ req.pr = << >>
          THEN /\ httpResponse' = [status |-> 400,
                                   body |-> [error |-> "PR URL is required"]]
               /\ UNCHANGED << pc, reviewCalls >>
          ELSE /\ pc' = "start"
               /\ reviewCalls' = reviewCalls + 1
               /\ UNCHANGED httpResponse
  /\ UNCHANGED << strategy, conversationHistory, callsIter, iterId, idx,
                  finalResponse, toolsUsed, nBackend, prompts, turnSent,
                  inFlight, pending, result, nRequested, backendFailures,
                  firstResponse, forceElicited, lastTool, validApiKeys,
                  toolVars, parseVars, callVars, objVars, analysisVars,
                  twoVars >>

\* hosted.js:53-59  reviewPullRequest has returned or thrown: res.json(result)
\* or res.status(500).json({ error })
ReviewSettles ==
  /\ pc \in { "done", "failed" }
  /\ httpRequest.received
  /\ httpResponse = NoHttpResponse
  /\ httpResponse' =
       [status |-> StatusOf(result),
        body |-> IF result.kind = "error"
                 THEN [error |-> "Failed to review PR"]
                 ELSE [message |-> result.text]]
  /\ UNCHANGED << vars, validApiKeys, httpRequest, reviewCalls, toolVars,
                  parseVars, callVars, objVars, analysisVars, twoVars >>

HostedNext ==
  \/ ReceiveReview
  \/ ReviewSettles
  \/ Next

HostedSpec == HostedInit /\ [][HostedNext]_allVars

(***************************************************************************)
(* Properties of the hosted endpoint, checked under HostedSpec.            *)
(***************************************************************************)
\* the request carries "Bearer " followed by a non-empty key of the allow-list
C19_BearerKeyAllowed ==
  /\ httpRequest.hasHeader
  /\ \E i \in 1..Len(validApiKeys) :
       /\ validApiKeys[i] # << >>
       /\ httpRequest.authorization
            = << "B", "e", "a", "r", "e", "r", " " >> \o validApiKeys[i]

C20_Accepted ==
  /\ C19_BearerKeyAllowed
  /\ httpRequest.hasPr
  /\ httpRequest.pr # << >>

C20_WitnessThrown ==
  /\ C20_Accepted
  /\ result.kind = "error"
  /\ httpResponse.status = 500

(***************************************************************************)
(* Properties of the review session, continued (checked under Spec).       *)
(***************************************************************************)
\* the names of the tools whose execution starts in this step
C22_Started == { callsIter'[r[2]] : r \in inFlight' \ inFlight }

\* C22: the tool-usage set is exact: it starts empty, and every step adds to
\* it exactly the names of the tools whose execution the step starts, no
\* other name, and removes none; so in every state it is the set of the names
\* of the tools invoked so far.
C22_ToolUsageExact ==
  [][ toolsUsed' = toolsUsed \cup C22_Started ]_vars

\* C24: forced promotion is final.  A response to a rephrased prompt that
\* holds a tool request takes the session into the tool execution with that
\* response, without another prompt; and once the session has left the
\* rephrasings for the tool flow, no step sends a rephrased prompt again.
C24_ForcedPromotionFinal ==
  [][ /\ (pc = "awaitForce" /\ nRequested' > nRequested)
           => /\ pc' = "awaitBatchTool"
              /\ iterId' = nBackend
              /\ prompts' = prompts
      /\ (strategy > 0 /\ pc # "awaitForce") => prompts' = prompts ]_vars

\* the same, for the responses that hold the tool request in their
\* functionCalls property
C24_PromotedByFunctionCalls ==
  [][ (strategy > 0 /\ pc # "awaitForce") => prompts' = prompts ]_vars

(***************************************************************************)
(* The session under fair scheduling: every awaited backend call and tool  *)
(* execution settles, so a step that is possible is eventually taken.  The *)
(* backend requests at most MaxToolRequests tools in a session.            *)
(***************************************************************************)
LiveSpec == Init /\ [][Next]_allVars /\ WF_allVars(Next)

\* reviewPullRequest has returned a message or thrown
C26_Terminated == pc \in { "done", "failed" }
\* the session has issued as many backend calls as the model follows and
\* can take no further step
C26_Capped == nBackend = MaxBackendCalls /\ ~ENABLED Next

\* C26: under fair scheduling and with finitely many tool requests every
\* session of at most MaxBackendCalls backend calls eventually returns or
\* throws, and after that no step issues a backend call or starts or settles
\* a tool execution.
C26_SessionTerminates ==
  /\ <>(C26_Terminated \/ C26_Capped)
  /\ [][ C26_Terminated => /\ nBackend' = nBackend
                       /\ inFlight' = inFlight
                       /\ lastTool' = lastTool
                       /\ C26_Terminated' ]_allVars

\* a session that went through the tool loop, with a backend call that threw
\* on its way, has returned
C26_Witness ==
  /\ pc = "done"
  /\ result.kind = "text"
  /\ lastTool.req[1] > 1
  /\ backendFailures # << >>
  /\ nBackend < MaxBackendCalls

\* every tool-response turn of the history has a model tool-request turn for
\* the same invocation before it
C29_ResponsesFollowRequests ==
  \A k \in 1..Len(conversationHistory) :
    conversationHistory[k].role = "function"
      => \E j \in 1..(k - 1) :
           /\ conversationHistory[j].role = "model"
           /\ conversationHistory[j].req = conversationHistory[k].req
           /\ conversationHistory[j].name = conversationHistory[k].name

\* C29: in the history the chat is started with, every tool-response turn is
\* preceded by a model tool-request turn for the same invocation (so n tool
\* responses come with n model tool-request turns), and a step of one
\* handleFunctionCalls only appends turns to the history.
C29_TranscriptWellFormed ==
  /\ [] C29_ResponsesFollowRequests
  /\ [][ (conversationHistory # << >> /\ strategy' = strategy)
           => /\ Len(conversationHistory') >= Len(conversationHistory)
              /\ SubSeq(conversationHistory', 1, Len(conversationHistory))
                   = conversationHistory ]_vars

\* C30: in the tool loop the name of a requested tool is in the tool-usage
\* set when its execution is attempted: the step that starts the execution
\* adds the name and nothing else (nothing when the name is there already),
\* and the step that takes in the outcome, a result or an error, of a
\* registered tool or of a name without handler, leaves the set as it is; the
\* final review is requested only with at least 3 names in the set.
C30_GateCountingRule ==
  [][ /\ (pc' = "awaitLoopTool" /\ << pc, iterId, idx >> # << pc', iterId', idx' >>)
           => /\ callsIter'[idx'] \in toolsUsed'
              /\ pc # "awaitContinuation"
                   => toolsUsed' = toolsUsed \cup { callsIter'[idx'] }
      /\ pc = "awaitLoopTool"
           => /\ callsIter[idx] \in toolsUsed
              /\ strategy' = strategy => toolsUsed' = toolsUsed
      /\ (pc' = "awaitFinalPrompt" /\ pc # "awaitFinalPrompt")
           => Cardinality(toolsUsed) >= 3 ]_vars

\* the final review is requested after a name without handler, whose
\* execution failed, was counted as the third tool
C30_Witness ==
  /\ pc = "awaitFinalPrompt"
  /\ toolsUsed = { "get_review_prompts", "get_pr_details", "unknown_tool" }
  /\ lastTool.name = "unknown_tool"
  /\ lastTool.outcome = "error"

(***************************************************************************)
(* Properties of the tool invocations, continued (checked under ToolSpec). *)
(***************************************************************************)
\* C23: get_review_prompts is pure: all the invocations a server has
\* answered, whatever their arguments and whatever was invoked between them,
\* returned the same text, and an invocation of it has returned at once
\* without a call on the platform client, the platform or the analysis
\* provider.
C23_ReviewPromptsPure ==
  /\ \A p \in guidelines, q \in guidelines : p[1] = q[1] => p[3] = q[3]
  /\ handlerCalled = "get_review_prompts"
       => /\ tpc = "done"
          /\ response.kind = "result"
          /\ << request.server, invocations, response.content[1].text >>
               \in guidelines
          /\ githubCalls = << >>
          /\ octokitCalls = << >>
          /\ analysisCalls = << >>

\* one server has answered get_review_prompts, then another tool, then
\* get_review_prompts again, with an argument this time
C23_Witness ==
  /\ invocations = 3
  /\ handlerCalled = "get_review_prompts"
  /\ request.server = "mcp"
  /\ request.hasArgs
  /\ "random_string" \in DOMAIN request.args
  /\ \E p \in guidelines : p[1] = "mcp" /\ p[2] = 1
  /\ \A p \in guidelines : p[2] # 2

\* the arguments each rule of collaborator injection passes to a handler
C25_ByName(name) ==
  IF name \in { "get_pr_details", "get_pr_files", "get_pr_commits",
                "get_file_content", "post_pr_review", "get_repo_info",
                "get_review_prompts" }
  THEN << "github", "args" >>
  ELSE << "github", "analysis", "args" >>

\* C25: collaborator injection is consistent: a registered tool invoked
\* through the session dispatcher or through the protocol server is called
\* with (github, analysis, args) when it is one of the seven analysis tools and
\* with (github, args) otherwise, which are the parameters its handler
\* declares: with well-formed arguments the handler reads its args and goes
\* on to its collaborators.
C25_InjectionConsistent ==
  (request.server \in { "mcp", "session" } /\ request.name \in
     { "get_pr_details", "get_pr_files", "get_pr_commits", "get_file_content",
       "post_pr_review", "get_repo_info", "get_review_prompts",
       "analyze_code_quality", "analyze_diff_impact", "detect_security_issues",
       "detect_code_patterns", "analyze_dependencies", "analyze_test_coverage",
       "generate_suggestions" })
    => /\ handlerCalled = request.name
       /\ handlerArgs = C25_ByName(request.name)
       /\ handlerArgs[Len(handlerArgs)] = "args"
       /\ (request.name = "generate_suggestions" /\ request.hasArgs
           /\ C12_Given("pr_url") /\ C12_Given("file_path"))
            => githubCalls # << >>

\* the protocol server has called an analysis tool, which has used both of
\* its collaborators
C25_Witness ==
  /\ request.server = "mcp"
  /\ request.name = "generate_suggestions"
  /\ handlerArgs = << "github", "analysis", "args" >>
  /\ analysisCalls # << >>

(***************************************************************************)
(* AnalysisService.analyzeCodeQuality (analysis.js:14-41) and the metrics  *)
(* it is computed from.  A file of the PR is given by what the metrics     *)
(* read of its patch: the number of lines that start with "+", and, in     *)
(* those lines after the first, the number of complexity keywords, whether *)
(* TODO or FIXME occurs, whether a word of 30 characters occurs and the     *)
(* number of matches of the debt indicators.  maintainability_index has    *)
(* one decimal (loc * 0.1) and is held in tenths.                          *)
(***************************************************************************)
\* most files of the PR given to analyzeCodeQuality
MaxQualityFiles == 2

Min(a, b) == IF a < b THEN a ELSE b
Max(a, b) == IF a > b THEN a ELSE b

\* the files: without patch; one added line; a small clean change; a large
\* change full of branches, notes and debug output; a short change with a
\* TODO; a very long change
QualityFiles ==
  { [hasPatch |-> FALSE, added |-> 0, keywords |-> 0, todo |-> FALSE,
     longWord |-> FALSE, indicators |-> 0],
    [hasPatch |-> TRUE, added |-> 1, keywords |-> 0, todo |-> FALSE,
     longWord |-> FALSE, indicators |-> 0],
    [hasPatch |-> TRUE, added |-> 11, keywords |-> 3, todo |-> FALSE,
     longWord |-> FALSE, indicators |-> 0],
    [hasPatch |-> TRUE, added |-> 41, keywords |-> 30, todo |-> TRUE,
     longWord |-> TRUE, indicators |-> 25],
    [hasPatch |-> TRUE, added |-> 6, keywords |-> 0, todo |-> TRUE,
     longWord |-> FALSE, indicators |-> 1],
    [hasPatch |-> TRUE, added |-> 1001, keywords |-> 0, todo |-> FALSE,
     longWord |-> FALSE, indicators |-> 0] }
\* analysis.js:28  filePaths && !filePaths.includes(file.filename): selected
\* is false for a file the filter leaves out
QualityInputs ==
  UNION { [1..n -> { [file |-> f, selected |-> b] :
                       f \in QualityFiles, b \in BOOLEAN }] :
            n \in 0..MaxQualityFiles }

\* analysis.js:63  lines.filter(line => line.startsWith('+')).slice(1)
LinesOfCode(file) == Max(file.added - 1, 0)
\* analysis.js:337-406  calculateComplexity: 1 + one per keyword found in a
\* line, capped at 20
calculateComplexity(file) == Min(1 + file.keywords, 20)
\* analysis.js:409-427  calculateMaintainabilityIndex, in tenths
calculateMaintainabilityIndex(file) ==
  Max(0, Min(1000, 1000 - calculateComplexity(file) * 20 - LinesOfCode(file)
                     - (IF file.todo THEN 50 ELSE 0)
                     - (IF file.longWord THEN 30 ELSE 0)))
\* analysis.js:429-451  calculateTechnicalDebt: 5 per match, capped at 100
calculateTechnicalDebt(file) == Min(100, file.indicators * 5)

\* analysis.js:46-84  analyzeFileQuality: the metrics stay 0 without a patch
analyzeFileQuality(file) ==
  IF ~file.hasPatch
  THEN [cyclomatic_complexity |-> 0, lines_of_code |-> 0,
        maintainability_index |-> 0, technical_debt_ratio |-> 0]
  ELSE [cyclomatic_complexity |-> calculateComplexity(file),
        lines_of_code |-> LinesOfCode(file),
        maintainability_index |-> calculateMaintainabilityIndex(file),
        technical_debt_ratio |-> calculateTechnicalDebt(file)]

\* Array.prototype.reduce((sum, f) => sum + f.metrics[k], 0)
RECURSIVE SumOf(_, _)
SumOf(fileAnalyses, k) ==
  IF fileAnalyses = << >> THEN 0
  ELSE SumOf(SubSeq(fileAnalyses, 1, Len(fileAnalyses) - 1), k)
       + fileAnalyses[Len(fileAnalyses)][k]

\* Math.round(num / den) for den > 0: the nearest integer, a half goes up
Round(num, den) == (2 * num + den) \div (2 * den)

\* analysis.js:453-471  calculateOverallScore:
\* Math.round(avgMaintainability - avgComplexity * 2 - avgDebt * 0.5), the
\* three averages over the same files; the numerator is in tenths
calculateOverallScore(fileAnalyses) ==
  IF Len(fileAnalyses) = 0 THEN 100
  ELSE Round(SumOf(fileAnalyses, "maintainability_index")
               - 20 * SumOf(fileAnalyses, "cyclomatic_complexity")
               - 5 * SumOf(fileAnalyses, "technical_debt_ratio"),
             10 * Len(fileAnalyses))

\* analysis.js:27-28  the for-of loop skips the files the filter leaves out:
\* the position of the first selected file from i on, Len + 1 if none
NextSelected(list, i) ==
  IF \E j \in i..Len(list) : list[j].selected
  THEN CHOOSE j \in i..Len(list) :
         list[j].selected /\ \A k \in i..(j - 1) : ~list[k].selected
  ELSE Len(list) + 1

ScoreInit ==
  /\ qpc = "idle"
  /\ qFiles \in QualityInputs
  /\ qNext = 0
  /\ analysisFiles = << >>
  /\ overall_score = 0
  /\ ScanIdle
  /\ pc = "start"
  /\ SessionFresh
  /\ ToolIdle
  /\ ParseIdle
  /\ HttpIdle
  /\ CallIdle
  /\ ObjFresh
  /\ TwoIdle

\* analysis.js:27-38  the loop from position i: it awaits analyzeFileQuality
\* of the next selected file, or, past the last file, the score is computed
\* and analyzeCodeQuality returns
QualityLoop(i, done) ==
  /\ qNext' = i
  /\ analysisFiles' = done
  /\ IF i <= Len(qFiles)
     THEN qpc' = "awaitFileQuality" /\ UNCHANGED overall_score
     ELSE qpc' = "done" /\ overall_score' = calculateOverallScore(done)

\* analysis.js:14-30  analyzeCodeQuality(prDetails, filePaths) is called
AnalyzeCodeQuality ==
  /\ qpc = "idle"
  /\ QualityLoop(NextSelected(qFiles, 1), << >>)
  /\ UNCHANGED << qFiles, scanVars, vars, toolVars, parseVars, httpVars,
                  callVars, objVars, twoVars >>

\* analysis.js:30-38  analyzeFileQuality(file) resolves: the analysis is
\* pushed and the loop goes on
FileQualityResolves ==
  /\ qpc = "awaitFileQuality"
  /\ QualityLoop(NextSelected(qFiles, qNext + 1),
                 Append(analysisFiles, analyzeFileQuality(qFiles[qNext].file)))
  /\ UNCHANGED << qFiles, scanVars, vars, toolVars, parseVars, httpVars,
                  callVars, objVars, twoVars >>

ScoreNext ==
  \/ AnalyzeCodeQuality
  \/ FileQualityResolves

ScoreSpec == ScoreInit /\ [][ScoreNext]_allVars

\* C27: the overall_score analyze_code_quality returns is an integer between
\* 0 and 100 inclusive, for every PR.
C27_ScoreRange ==
  qpc = "done" => overall_score \in 0..100

(***************************************************************************)
(* AnalysisService.detectSecurityIssues (analysis.js:127-150) on the       *)
(* AnalysisService a server constructs once (analysis.js:1149).  The       *)
(* patterns of this.securityPatterns are RegExp objects with the g flag:   *)
(* test() starts its search at the object's lastIndex, sets lastIndex to   *)
(* the end of the match it finds and to 0 when it finds none.  Two of the  *)
(* patterns are followed: /eval\s*\(/gi and /Math\.random\(\)/gi.          *)
(* Positions in a text are counted in characters, from 0.                  *)
(***************************************************************************)
\* most files of the PR, most lines of a patch, most consecutive invocations
MaxScanFiles == 2
MaxPatchLines == 2
MaxScans == 2

\* analysis.js:524-545  the pattern objects followed, by category, in the
\* order of Object.entries
SecurityPatterns == << "insecure_random", "eval_usage" >>

\* the lines of a patch: their length, whether they start with "+", and
\* where in the line each pattern matches (start, end)
\*   "+eval(x)"   "+Math.random()"   "+x"   " eval(x)"
PatchLines ==
  { [length |-> 8, added |-> TRUE, eval_usage |-> << 1, 6 >>,
     insecure_random |-> << >>],
    [length |-> 14, added |-> TRUE, eval_usage |-> << >>,
     insecure_random |-> << 1, 14 >>],
    [length |-> 2, added |-> TRUE, eval_usage |-> << >>,
     insecure_random |-> << >>],
    [length |-> 8, added |-> FALSE, eval_usage |-> << 1, 6 >>,
     insecure_random |-> << >>] }

\* the files of the PR: patch is << >> for a file without patch
ScanFiles == UNION { [1..n -> PatchLines] : n \in 0..MaxPatchLines }
ScanInputs == UNION { [1..n -> ScanFiles] : n \in 0..MaxScanFiles }

\* analysis.js:734-737  file.patch.split('\n').filter(line =>
\* line.startsWith('+'))
IsAdded(line) == line.added
AddedLines(patch) == SelectSeq(patch, IsAdded)

\* analysis.js:737  addedLines.join('\n'): the position at which line k of
\* the joined text starts
RECURSIVE LineStart(_, _)
LineStart(lines, k) ==
  IF k = 1 THEN 0 ELSE LineStart(lines, k - 1) + lines[k - 1].length + 1

\* the matches of a pattern in the joined text, as (start, end)
MatchesIn(lines, pattern) ==
  { << LineStart(lines, k) + lines[k][pattern][1],
       LineStart(lines, k) + lines[k][pattern][2] >> :
      k \in { j \in 1..Len(lines) : lines[j][pattern] # << >> } }

\* RegExp.prototype.test of a pattern with the g flag, from lastIndex from:
\* the leftmost match that starts at from or later
MatchesFrom(matches, from) == { m \in matches : m[1] >= from }
LeftmostMatch(matches) == CHOOSE m \in matches : \A o \in matches : m[1] <= o[1]
Test(matches) ==
  IF matches = { } THEN [found |-> FALSE, lastIndex |-> 0]
  ELSE [found |-> TRUE, lastIndex |-> LeftmostMatch(matches)[2]]

\* analysis.js:740-751  the loop over the patterns for one file: pattern p of
\* SecurityPatterns is tested on the added lines; li holds lastIndex of each
\* pattern, found the vulnerabilities pushed so far
RECURSIVE ScanPatterns(_, _, _, _, _)
PatternTested(lines, name, p, li, found, t) ==
  ScanPatterns(lines, name, p + 1,
               [li EXCEPT ![SecurityPatterns[p]] = t.lastIndex],
               IF t.found
               THEN Append(found, [type |-> SecurityPatterns[p], file |-> name])
               ELSE found)
ScanPatterns(lines, name, p, li, found) ==
  IF p > Len(SecurityPatterns) THEN [vulnerabilities |-> found, lastIndex |-> li]
  ELSE PatternTested(lines, name, p, li, found,
               Test(MatchesFrom(MatchesIn(lines, SecurityPatterns[p]),
                                li[SecurityPatterns[p]])))

\* analysis.js:724-754  scanFileForSecurity(file)
scanFileForSecurity(patch, name, li, found) ==
  ScanPatterns(AddedLines(patch), name, 1, li, found)

\* analysis.js:136-144  the loop over prDetails.files; a file without patch
\* is skipped
RECURSIVE detectSecurityIssues(_, _, _)
detectSecurityIssues(files, i, s) ==
  IF i > Len(files) THEN s
  ELSE IF files[i] = << >> THEN detectSecurityIssues(files, i + 1, s)
  ELSE detectSecurityIssues(files, i + 1,
         scanFileForSecurity(files[i], i, s.lastIndex, s.vulnerabilities))

\* analysis.js:6  this.securityPatterns = this.initializeSecurityPatterns():
\* new pattern objects, lastIndex 0
initializeSecurityPatterns == [p \in { "insecure_random", "eval_usage" } |-> 0]

ScanInit ==
  /\ lastIndex = initializeSecurityPatterns
  /\ scanFiles \in ScanInputs
  /\ scanResults = << >>
  /\ ScoreIdle
  /\ pc = "start"
  /\ SessionFresh
  /\ ToolIdle
  /\ ParseIdle
  /\ HttpIdle
  /\ CallIdle
  /\ ObjFresh
  /\ TwoIdle

\* what one invocation leaves: the vulnerabilities it returns and lastIndex
Scanned(s) ==
  /\ scanResults' = Append(scanResults, s.vulnerabilities)
  /\ lastIndex' = s.lastIndex

\* analysis.js:127-150, get_pr_commits.js:73  the server's AnalysisService
\* runs detectSecurityIssues on the PR data; the method has no await and runs
\* to its end
DetectSecurityIssues ==
  /\ Len(scanResults) < MaxScans
  /\ Scanned(detectSecurityIssues(scanFiles, 1,
               [vulnerabilities |-> << >>, lastIndex |-> lastIndex]))
  /\ UNCHANGED << scanFiles, scoreVars, vars, toolVars, parseVars, httpVars,
                  callVars, objVars, twoVars >>

ScanNext == DetectSecurityIssues

ScanSpec == ScanInit /\ [][ScanNext]_allVars

\* file i of the PR data has an added line that matches the pattern
C28_Matches(i, pattern) ==
  \E k \in 1..Len(scanFiles[i]) :
    scanFiles[i][k].added /\ scanFiles[i][k][pattern] # << >>

\* C28: security scanning is stateless: every invocation reports every file
\* whose added lines match a pattern, for the category of the pattern,
\* whatever was scanned before, and two consecutive invocations on the same
\* PR data return the same vulnerabilities.
C28_ScanStateless ==
  /\ \A n \in 1..Len(scanResults), i \in 1..Len(scanFiles) :
       \A pattern \in { "insecure_random", "eval_usage" } :
         C28_Matches(i, pattern)
           => \E v \in 1..Len(scanResults[n]) :
                scanResults[n][v] = [type |-> pattern, file |-> i]
  /\ Len(scanResults) >= 2 => scanResults[2] = scanResults[1]

(***************************************************************************)
(* Two review sessions in one process (two POST /review requests being     *)
(* served).  The process runs one session at a time and leaves it only at  *)
(* an await; the variables of the session hold the locals of the session   *)
(* whose code runs, suspended the locals of the other one.  Every local of *)
(* reviewPullRequest and handleFunctionCalls is a const or let of the call *)
(* (hosted.js:195, 231, 269, 372, 373); hosted.js has no module-level      *)
(* variable these functions write.  The backend calls and the tool         *)
(* requests of the two sessions together stay within MaxBackendCalls and   *)
(* MaxToolRequests (within MaxBothBackendCalls once both have started),    *)
(* those of the second session within MaxSecondBackendCalls and            *)
(* MaxSecondToolRequests.                                                  *)
(***************************************************************************)
\* the locals of the session whose code runs
Locals ==
  [pc |-> pc, strategy |-> strategy,
   conversationHistory |-> conversationHistory, callsIter |-> callsIter,
   iterId |-> iterId, idx |-> idx, finalResponse |-> finalResponse,
   toolsUsed |-> toolsUsed, nBackend |-> nBackend, prompts |-> prompts,
   turnSent |-> turnSent, inFlight |-> inFlight, pending |-> pending,
   result |-> result, nRequested |-> nRequested,
   backendFailures |-> backendFailures, firstResponse |-> firstResponse,
   forceElicited |-> forceElicited, lastTool |-> lastTool,
   services |-> services]

\* hosted.js:367  a call of reviewPullRequest that has not run yet
NotStarted ==
  [pc |-> "start", strategy |-> 0, conversationHistory |-> << >>,
   callsIter |-> << >>, iterId |-> 0, idx |-> 0,
   finalResponse |-> NoResponse, toolsUsed |-> { }, nBackend |-> 0,
   prompts |-> << >>, turnSent |-> << >>, inFlight |-> { }, pending |-> { },
   result |-> NoResult, nRequested |-> 0, backendFailures |-> << >>,
   firstResponse |-> NoFirstResponse, forceElicited |-> FALSE,
   lastTool |-> NoTool, services |-> 0]

TwoInit ==
  /\ pc = "start"
  /\ SessionFresh
  /\ ObjFresh
  /\ running = 1
  /\ suspended = NotStarted
  /\ ToolIdle
  /\ ParseIdle
  /\ HttpIdle
  /\ CallIdle
  /\ AnalysisIdle

\* the session whose code runs is suspended at its await and the other one
\* is resumed
Switch ==
  /\ running' = 3 - running
  /\ suspended' = Locals
  /\ pc' = suspended.pc
  /\ strategy' = suspended.strategy
  /\ conversationHistory' = suspended.conversationHistory
  /\ callsIter' = suspended.callsIter
  /\ iterId' = suspended.iterId
  /\ idx' = suspended.idx
  /\ finalResponse' = suspended.finalResponse
  /\ toolsUsed' = suspended.toolsUsed
  /\ nBackend' = suspended.nBackend
  /\ prompts' = suspended.prompts
  /\ turnSent' = suspended.turnSent
  /\ inFlight' = suspended.inFlight
  /\ pending' = suspended.pending
  /\ result' = suspended.result
  /\ nRequested' = suspended.nRequested
  /\ backendFailures' = suspended.backendFailures
  /\ firstResponse' = suspended.firstResponse
  /\ forceElicited' = suspended.forceElicited
  /\ lastTool' = suspended.lastTool
  /\ services' = suspended.services
  /\ UNCHANGED << created, toolVars, parseVars, httpVars, callVars,
                  analysisVars >>

\* most backend calls and most tool requests of the second session, and
\* most backend calls of the two sessions once both have started
MaxSecondBackendCalls == 2
MaxSecondToolRequests == 1
MaxBothBackendCalls == 4

\* the calls and requests of the two sessions together, and those of the
\* second session
WithinBounds ==
  /\ nBackend' + suspended.nBackend <= MaxBackendCalls
  /\ nRequested' + suspended.nRequested <= MaxToolRequests
  /\ running = 2 => /\ nBackend' <= MaxSecondBackendCalls
                    /\ nRequested' <= MaxSecondToolRequests
  /\ (nBackend' > 0 /\ suspended.nBackend > 0)
       => nBackend' + suspended.nBackend <= MaxBothBackendCalls

TwoNext ==
  \/ Switch
  \/ Start /\ WithinBounds
  \/ InitialRejects /\ WithinBounds
  \/ InitialResolves /\ WithinBounds
  \/ ForceRejects /\ WithinBounds
  \/ ForceResolves /\ WithinBounds
  \/ BatchToolSettles /\ WithinBounds
  \/ ContinuationRejects /\ WithinBounds
  \/ ContinuationResolves /\ WithinBounds
  \/ LoopToolSettles /\ WithinBounds
  \/ LoopSendRejects /\ WithinBounds
  \/ LoopErrSendRejects /\ WithinBounds
  \/ LoopSendResolves /\ WithinBounds
  \/ FinalPromptRejects /\ WithinBounds
  \/ FinalPromptResolves /\ WithinBounds

TwoSpec == TwoInit /\ [][TwoNext]_allVars

\* the locals of the session whose code runs, its services apart
C21_Session ==
  << pc, strategy, conversationHistory, callsIter, iterId, idx,
     finalResponse, toolsUsed, nBackend, prompts, turnSent, inFlight,
     pending, result, nRequested, backendFailures, firstResponse,
     forceElicited, lastTool >>
C21_Suspended ==
  << suspended.pc, suspended.strategy, suspended.conversationHistory,
     suspended.callsIter, suspended.iterId, suspended.idx,
     suspended.finalResponse, suspended.toolsUsed, suspended.nBackend,
     suspended.prompts, suspended.turnSent, suspended.inFlight,
     suspended.pending, suspended.result, suspended.nRequested,
     suspended.backendFailures, suspended.firstResponse,
     suspended.forceElicited, suspended.lastTool >>

\* the two sessions have started and hold different service objects
C21_OwnServices ==
  (pc # "start" /\ suspended.pc # "start")
    => /\ services # suspended.services
       /\ services \in 1..2
       /\ suspended.services \in 1..2

\* C21: session isolation: of two interleaved sessions, every step of one
\* leaves the conversation history and the tool-usage set of the other (and
\* every other local of it) unchanged, the two hold different service
\* objects, a change of the running session moves no data between them, and
\* every step a session takes is a step of the session run alone, so that
\* its final answer is the one it gives alone.
C21_SessionIsolation ==
  /\ [] C21_OwnServices
  /\ [][ /\ running' = running
            => /\ suspended' = suspended
               /\ suspended'.conversationHistory = suspended.conversationHistory
               /\ suspended'.toolsUsed = suspended.toolsUsed
               /\ Next
         /\ running' # running
            => /\ C21_Suspended' = C21_Session
               /\ C21_Session' = C21_Suspended
               /\ services' = suspended.services
               /\ suspended'.services = services ]_allVars

\* both sessions have run to their answer, each through tool executions of
\* its own that left it a conversation history different from the other's
C21_Witness ==
  /\ pc = "done"
  /\ suspended.pc = "done"
  /\ conversationHistory # << >>
  /\ suspended.conversationHistory # << >>
  /\ conversationHistory # suspended.conversationHistory
  /\ result.kind = "text"
  /\ suspended.result.kind = "text"

====
